---- MODULE Spec2Model ----
(***************************************************************************)
(* Verification model of the shoppable-video repository.                   *)
(*                                                                         *)
(*  - video discovery: VideoQueuer.get_videos and the discovery job        *)
(*    _queue_videos, together with the analysis tasks that consume the     *)
(*    Cloud Tasks queue and write the video_analysis table;                *)
(*  - listing-group reconciliation: AdsService.add_offers_to_ad_group;     *)
(*  - the ad-group insertion job: cloud_run/main.py with BigQueryService;  *)
(*  - common.Video and its __post_init__;                                  *)
(*  - the chunked metadata lookup VideoQueuer._get_youtube_video_info;     *)
(*  - the sheet reader VideoQueuer._get_videos_from_google_sheet with      *)
(*    _process_gcs_uri;                                                    *)
(*  - VideoAnalyzer.analyze_video with the upload of a storage video and   *)
(*    the wait for it to become ACTIVE.                                    *)
(*                                                                         *)
(* Each component has its own specification (SpecVideos, SpecQueue,        *)
(* SpecAds, SpecJob, SpecVideoInit, SpecVideoInfo, SpecSheet, SpecAnalyze  *)
(* and, with fairness of the wait, SpecAnalyzeFair); the variables of the  *)
(* other components stay at their idle values.                             *)
(***************************************************************************)
EXTENDS Integers, Sequences, FiniteSets, TLC

VARIABLES
  \* ---- the environment read by VideoQueuer -------------------------------
  sheet_ids,        \* non-empty rows of range VideoIDs!A2:A, in sheet order
  sheet_gcs,        \* video blobs found under the prefixes of GCS!A2:A
  ads_rows,         \* rows of the ads_videos_<customer> query (DISTINCT)
  history,          \* rows of the video_analysis table: <<video_id, gcs_uri>>
  yt_status,        \* YouTube: privacy status per video id, or "missing"
  task_queue,       \* the Cloud Tasks queue: sequence of task payloads
  \* ---- one run of _queue_videos / get_videos -----------------------------
  pc,               \* position of the discovery run
  video_limit,      \* the video_limit argument of get_videos
  videos,           \* local: the collected candidates
  processed,        \* local: <<processed_video_ids, processed_gcs_uris>>
  unprocessed_videos,   \* local: the list filtered in place
  excluded_videos_info, \* local: ids recorded for the exclusion log line
  output,           \* the list get_videos returned
  lookup_ids,       \* ids sent to _get_youtube_video_info by this run
  queue_seen_empty, \* what is_queue_empty answered in this run
  push_i,           \* push_videos: number of videos of the list already sent
  pushed,           \* number of create_task calls made for each dedup key
  run_error,        \* the error the run raised, or NONE
  runs,             \* number of discovery runs started
  reads,            \* the lookups this run made, each with its outcome
  queue_checks,     \* number of is_queue_empty calls of this run
  \* ---- AdsService.add_offers_to_ad_group ---------------------------------
  ads_root,         \* platform: the ad group's root listing group node
  ads_leaves,       \* platform: case values of the UNIT children of the root
  ads_pc,           \* position of the add_offers_to_ad_group call
  req_offers,       \* the offer_ids argument (a list, may repeat ids)
  cpc_arg,          \* the cpc_bid_micros argument: <<>> (None) or <<n>>
  root_seen,        \* what get_listing_group_root returned
  effective_root,   \* _handle_root_node: effective_root_resource_name
  is_new_root,      \* _handle_root_node: is_new_root
  existing_offers,  \* the membership set used by the leaf loop
  existing_queried, \* whether get_existing_offers was called
  operations,       \* the accumulated batch
  mutate_calls,     \* number of mutate_ad_group_criteria calls of this call
  ads_error,        \* the exception the call raised, or NONE
  submitted,        \* the operation lists passed to mutate_ad_group_criteria
  ads_failure,      \* ex.failure.errors of the exception the call raised
  ads_log,          \* the lines the call logged
  applied_offers,   \* offers requested by earlier calls that succeeded
  calls,            \* number of add_offers_to_ad_group calls started
  \* ---- the ad-group insertion job (cloud_run/main.py) --------------------
  requests,         \* rows of the insertion requests table
  request_uuid_arg, \* the --request-uuid argument, or NONE
  job_pc,           \* position of the job
  updates,          \* the list fetch_pending_updates returned
  update_i,         \* number of updates the loop of main has processed
  results_by_request,   \* main's dict, as the list of its values
  ads_calls,        \* the updates add_offers_to_ad_group was called for
  fetch_calls,      \* number of fetch_pending_updates calls
  status_inserts,   \* the row lists written by record_insertion_status
  job_error,        \* the exception the job raised, or NONE
  \* ---- common.Video: constructions ---------------------------------------
  video_args,       \* the arguments of each Video(...) call made
  video_built,      \* the outcome of each call: the object or the error
  \* ---- VideoQueuer._get_youtube_video_info -------------------------------
  info_pc,          \* position of the call
  info_video_ids,   \* the video_ids argument
  missing_ids,      \* ids YouTube returns no item for
  video_ids_chunks, \* local: the chunks of video_ids
  list_requests,    \* the ids of each videos().list request sent
  video_items,      \* local: the items of the responses
  info_returned,    \* the dictionary returned: id -> <<status, title>>
  \* ---- VideoQueuer._get_videos_from_google_sheet -------------------------
  gcs_rows,         \* rows of GCS!A2:A, each with what list_blobs does for it
  sheet_pc,         \* position of the call
  yt_ids_videos,    \* local: the videos of the VideoIDs range
  gcs_uris_videos,  \* local: the videos of the prefixes processed so far
  prefix_i,         \* number of prefixes processed
  sheet_log,        \* the lines the call logged
  sheet_result,     \* the list returned
  \* ---- VideoAnalyzer.analyze_video ---------------------------------------
  an_video,         \* the video argument
  an_pc,            \* position of the call
  video_content,    \* local: the Part or the File passed to the model
  api_files,        \* generative API: names of the files it holds
  file_state,       \* generative API: state of the uploaded file
  upload_calls,     \* number of files.upload calls
  observed,         \* the states the files.get calls of the wait returned
  elapsed,          \* seconds since the first files.get call of the wait
  attempt_number,   \* tenacity: number of the current attempt
  generate_calls,   \* number of generate_content calls
  pending_error,    \* the exception in flight while finally runs, or NONE
  delete_calls,     \* the files.delete calls, each with its outcome
  an_error          \* the exception analyze_video raised, or NONE

env_vars == <<sheet_ids, sheet_gcs, ads_rows, history, yt_status, task_queue>>
run_vars == <<pc, video_limit, videos, processed, unprocessed_videos,
              excluded_videos_info, output, lookup_ids, queue_seen_empty,
              push_i, pushed, run_error, runs, reads, queue_checks>>
ads_vars == <<ads_root, ads_leaves, ads_pc, req_offers, cpc_arg, root_seen,
              effective_root, is_new_root, existing_offers, existing_queried,
              operations, mutate_calls, ads_error, submitted, ads_failure,
              ads_log, applied_offers, calls>>
job_vars == <<requests, request_uuid_arg, job_pc, updates, update_i,
              results_by_request, ads_calls, fetch_calls, status_inserts,
              job_error>>
sheet_vars == <<gcs_rows, sheet_pc, yt_ids_videos, gcs_uris_videos, prefix_i,
                sheet_log, sheet_result>>
analyze_vars == <<an_video, an_pc, video_content, api_files, file_state,
                  upload_calls, observed, elapsed, attempt_number,
                  generate_calls, pending_error, delete_calls, an_error>>
fn_vars == <<video_args, video_built, info_pc, info_video_ids, missing_ids,
             video_ids_chunks, list_requests, video_items, info_returned,
             sheet_vars, analyze_vars>>
vars == <<env_vars, run_vars, ads_vars, job_vars, fn_vars>>

----------------------------------------------------------------------------
\* Bounds of the model.
MaxSheetRows == 2
MaxGcsVideos == 1
MaxAdsRows == 2
MaxLimit == 5
MaxQueueLimit == 2
MaxRuns == 3
MaxOffers == 3
MaxCalls == 2
MaxErrors == 2
MaxRequests == 2
MaxDestinations == 2
MaxVideos == 2
MaxIds == 102
MaxPrefixes == 2
MaxBlobs == 2
MaxPollSeconds == 1

\* Python's None.
NONE == "None"

VideoIds == {"v1", "v2"}
GcsUris == {"gs://b/g1.mp4"}
PrivacyStatuses == {"public", "private", "unlisted"}

\* Sequences over S of length at most n.
SeqsUpTo(S, n) == UNION {[1..k -> S] : k \in 0..n}

\* Sequences without repetition (the rows of a SELECT DISTINCT).
DistinctSeqsUpTo(S, n) ==
  {s \in SeqsUpTo(S, n) : \A i, j \in 1..Len(s) : s[i] = s[j] => i = j}

Range(s) == {s[i] : i \in 1..Len(s)}

\* Python truthiness of an Optional[str].
Truthy(x) == x # NONE /\ x # ""

----------------------------------------------------------------------------
\* common.Video and its construction as used by VideoQueuer.

\* Video(source=..., video_id=...)
YoutubeVideo(source, video_id) ==
  [source |-> source, video_id |-> video_id, gcs_uri |-> NONE,
   metadata |-> <<>>]

\* Video(source=MANUAL_ENTRY, gcs_uri=..., md5_hash=..., metadata=title)
GcsVideo(gcs_uri) ==
  [source |-> "manual_entry", video_id |-> NONE, gcs_uri |-> gcs_uri,
   metadata |-> <<"file name">>]

\* The title YouTube reports for a video id.
YtTitle(id) == IF id = "v1" THEN "title 1" ELSE "title 2"

\* The dedup key get_videos uses for a video: its video_id if it has one,
\* otherwise its gcs_uri.
DedupKey(video) ==
  IF Truthy(video.video_id) THEN video.video_id ELSE video.gcs_uri

----------------------------------------------------------------------------
\* VideoQueuer: the source readers.

\* _get_youtube_ids_from_sheet: one MANUAL_ENTRY video per non-empty row.
YoutubeIdsFromSheet ==
  [i \in 1..Len(sheet_ids) |-> YoutubeVideo("manual_entry", sheet_ids[i])]

\* _process_gcs_uri over the prefixes of the sheet: one video per video blob.
GcsVideosFromSheet ==
  [i \in 1..Len(sheet_gcs) |-> GcsVideo(sheet_gcs[i])]

\* _get_videos_from_google_sheet: yt_ids_videos + gcs_uris_videos.
VideosFromGoogleSheet == YoutubeIdsFromSheet \o GcsVideosFromSheet

\* _get_videos_from_google_ads: one GOOGLE_ADS video per row.
VideosFromGoogleAds ==
  [i \in 1..Len(ads_rows) |-> YoutubeVideo("google_ads", ads_rows[i])]

\* get_videos, the collection: the sheet is read first, then Google Ads.
CollectAdsFirst == VideosFromGoogleAds \o VideosFromGoogleSheet
CollectVideos == VideosFromGoogleSheet \o VideosFromGoogleAds

\* _get_processed_videos: a row with a gcs_uri goes to the GCS list, any other
\* row with a video_id to the id list.
GetProcessedVideos ==
  <<{r.video_id : r \in {x \in history :
                           ~Truthy(x.gcs_uri) /\ Truthy(x.video_id)}},
    {r.gcs_uri : r \in {x \in history : Truthy(x.gcs_uri)}}>>

----------------------------------------------------------------------------
\* get_videos, the dedup loop: one pass from left to right over the collected
\* videos with the two seen sets.

RECURSIVE DedupNoSeen(_, _, _, _, _)
DedupNoSeen(vs, pids, puris, seen_video_ids, seen_gcs_uris) ==
  IF vs = <<>> THEN <<>>
  ELSE LET video == Head(vs) IN
    IF Truthy(video.video_id) THEN
      IF video.video_id \in pids \/ video.video_id \in seen_video_ids
      THEN DedupNoSeen(Tail(vs), pids, puris, seen_video_ids, seen_gcs_uris)
      ELSE <<video>> \o
           DedupNoSeen(Tail(vs), pids, puris, seen_video_ids, seen_gcs_uris)
    ELSE IF Truthy(video.gcs_uri) THEN
      IF video.gcs_uri \in puris \/ video.gcs_uri \in seen_gcs_uris
      THEN DedupNoSeen(Tail(vs), pids, puris, seen_video_ids, seen_gcs_uris)
      ELSE <<video>> \o
           DedupNoSeen(Tail(vs), pids, puris, seen_video_ids, seen_gcs_uris)
    ELSE <<video>> \o
         DedupNoSeen(Tail(vs), pids, puris, seen_video_ids, seen_gcs_uris)

RECURSIVE DedupSeenOnly(_, _, _, _, _)
DedupSeenOnly(vs, pids, puris, seen_video_ids, seen_gcs_uris) ==
  IF vs = <<>> THEN <<>>
  ELSE LET video == Head(vs) IN
    IF Truthy(video.video_id) THEN
      IF video.video_id \in seen_video_ids
      THEN DedupSeenOnly(Tail(vs), pids, puris, seen_video_ids, seen_gcs_uris)
      ELSE <<video>> \o
           DedupSeenOnly(Tail(vs), pids, puris,
                         seen_video_ids \cup {video.video_id}, seen_gcs_uris)
    ELSE IF Truthy(video.gcs_uri) THEN
      IF video.gcs_uri \in puris \/ video.gcs_uri \in seen_gcs_uris
      THEN DedupSeenOnly(Tail(vs), pids, puris, seen_video_ids, seen_gcs_uris)
      ELSE <<video>> \o
           DedupSeenOnly(Tail(vs), pids, puris, seen_video_ids,
                         seen_gcs_uris \cup {video.gcs_uri})
    ELSE <<video>> \o
         DedupSeenOnly(Tail(vs), pids, puris, seen_video_ids, seen_gcs_uris)

RECURSIVE Dedup(_, _, _, _, _)
Dedup(vs, pids, puris, seen_video_ids, seen_gcs_uris) ==
  IF vs = <<>> THEN <<>>
  ELSE LET video == Head(vs) IN
    IF Truthy(video.video_id) THEN
      IF video.video_id \in pids \/ video.video_id \in seen_video_ids
      THEN Dedup(Tail(vs), pids, puris, seen_video_ids, seen_gcs_uris)
      ELSE <<video>> \o
           Dedup(Tail(vs), pids, puris,
                 seen_video_ids \cup {video.video_id}, seen_gcs_uris)
    ELSE IF Truthy(video.gcs_uri) THEN
      IF video.gcs_uri \in puris \/ video.gcs_uri \in seen_gcs_uris
      THEN Dedup(Tail(vs), pids, puris, seen_video_ids, seen_gcs_uris)
      ELSE <<video>> \o
           Dedup(Tail(vs), pids, puris, seen_video_ids,
                 seen_gcs_uris \cup {video.gcs_uri})
    ELSE <<video>> \o
         Dedup(Tail(vs), pids, puris, seen_video_ids, seen_gcs_uris)

----------------------------------------------------------------------------
\* get_videos, the visibility step.

\* _get_youtube_video_info: id -> <<privacyStatus, title>> for every requested
\* id the API returns an item for.
YoutubeVideoInfo(video_ids) ==
  [id \in {x \in Range(video_ids) : yt_status[x] # "missing"} |->
     <<yt_status[id], YtTitle(id)>>]

\* list.remove(x): the list without its first element equal to x.
RECURSIVE ListRemove(_, _)
ListRemove(list, x) ==
  IF list = <<>> THEN <<>>
  ELSE IF Head(list) = x THEN Tail(list)
  ELSE <<Head(list)>> \o ListRemove(Tail(list), x)

\* video.metadata = VideoMetadata(title=title) on the object held by the list.
SetMetadata(list, video, title) ==
  [i \in 1..Len(list) |->
     IF list[i] = video THEN [video EXCEPT !.metadata = <<title>>]
     ELSE list[i]]

\* The loop over unprocessed_youtube_videos: acc.list is unprocessed_videos,
\* acc.excluded the ids appended to excluded_videos_info.
RECURSIVE VisibilityLoop(_, _, _)
VisibilityLoop(youtube_videos, video_info, acc) ==
  IF youtube_videos = <<>> THEN acc
  ELSE LET video == Head(youtube_videos) IN
    IF video.video_id \in DOMAIN video_info THEN
      IF video_info[video.video_id][1] # "public"
      THEN VisibilityLoop(Tail(youtube_videos), video_info,
             [list |-> ListRemove(acc.list, video),
              excluded |-> Append(acc.excluded, video.video_id)])
      ELSE VisibilityLoop(Tail(youtube_videos), video_info,
             [list |-> SetMetadata(acc.list, video,
                                   video_info[video.video_id][2]),
              excluded |-> acc.excluded])
    ELSE VisibilityLoop(Tail(youtube_videos), video_info, acc)

\* The same loop run over the list it removes from: a removal moves the next
\* element into the current position and the iteration steps over it.
RECURSIVE VisibilityLoopSkipping(_, _, _)
VisibilityLoopSkipping(youtube_videos, video_info, acc) ==
  IF youtube_videos = <<>> THEN acc
  ELSE LET video == Head(youtube_videos) IN
    IF video.video_id \in DOMAIN video_info THEN
      IF video_info[video.video_id][1] # "public"
      THEN VisibilityLoopSkipping(
             IF Len(youtube_videos) > 1 THEN Tail(Tail(youtube_videos))
             ELSE <<>>,
             video_info,
             [list |-> ListRemove(acc.list, video),
              excluded |-> Append(acc.excluded, video.video_id)])
      ELSE VisibilityLoopSkipping(Tail(youtube_videos), video_info,
             [list |-> SetMetadata(acc.list, video,
                                   video_info[video.video_id][2]),
              excluded |-> acc.excluded])
    ELSE VisibilityLoopSkipping(Tail(youtube_videos), video_info, acc)

\* unprocessed_youtube_videos: the videos whose video_id is not None.
YoutubeVideosOf(list) == SelectSeq(list, LAMBDA v : v.video_id # NONE)

VideoIdsOf(list) == [i \in 1..Len(list) |-> list[i].video_id]

VisibilityFilterSkipping(list) ==
  LET youtube_videos == YoutubeVideosOf(list) IN
  IF youtube_videos = <<>> THEN [list |-> list, excluded |-> <<>>]
  ELSE VisibilityLoopSkipping(youtube_videos,
                              YoutubeVideoInfo(VideoIdsOf(youtube_videos)),
                              [list |-> list, excluded |-> <<>>])

\* The loop removing also the videos the response has no item for.
RECURSIVE VisibilityLoopDropsMissing(_, _, _)
VisibilityLoopDropsMissing(youtube_videos, video_info, acc) ==
  IF youtube_videos = <<>> THEN acc
  ELSE LET video == Head(youtube_videos) IN
    IF video.video_id \in DOMAIN video_info
         /\ video_info[video.video_id][1] = "public"
    THEN VisibilityLoopDropsMissing(Tail(youtube_videos), video_info,
           [list |-> SetMetadata(acc.list, video,
                                 video_info[video.video_id][2]),
            excluded |-> acc.excluded])
    ELSE VisibilityLoopDropsMissing(Tail(youtube_videos), video_info,
           [list |-> ListRemove(acc.list, video),
            excluded |-> Append(acc.excluded, video.video_id)])

VisibilityFilterDropsMissing(list) ==
  LET youtube_videos == YoutubeVideosOf(list) IN
  IF youtube_videos = <<>> THEN [list |-> list, excluded |-> <<>>]
  ELSE VisibilityLoopDropsMissing(youtube_videos,
                                  YoutubeVideoInfo(VideoIdsOf(youtube_videos)),
                                  [list |-> list, excluded |-> <<>>])

\* Lines 167-192 of get_videos on the deduplicated list.
VisibilityFilter(list) ==
  LET youtube_videos == YoutubeVideosOf(list) IN
  IF youtube_videos = <<>> THEN [list |-> list, excluded |-> <<>>]
  ELSE VisibilityLoop(youtube_videos,
                      YoutubeVideoInfo(VideoIdsOf(youtube_videos)),
                      [list |-> list, excluded |-> <<>>])

Min(a, b) == IF a < b THEN a ELSE b
Max(a, b) == IF a < b THEN b ELSE a

\* Python's list[:n].
SliceOneMore(list, n) == SubSeq(list, 1, Min(n + 1, Len(list)))
Slice(list, n) ==
  IF n >= 0 THEN SubSeq(list, 1, Min(n, Len(list)))
  ELSE SubSeq(list, 1, Max(Len(list) + n, 0))

----------------------------------------------------------------------------
\* Idle values of each component's variables.

RunIdle ==
  /\ pc = "start"
  /\ videos = <<>>
  /\ processed = <<{}, {}>>
  /\ unprocessed_videos = <<>>
  /\ excluded_videos_info = <<>>
  /\ output = <<>>
  /\ lookup_ids = <<>>
  /\ queue_seen_empty = FALSE
  /\ push_i = 0
  /\ pushed = [k \in VideoIds \cup GcsUris |-> 0]
  /\ run_error = NONE
  /\ runs = 1
  /\ reads = <<>>
  /\ queue_checks = 0

DiscoveryIdle ==
  /\ sheet_ids = <<>>
  /\ sheet_gcs = <<>>
  /\ ads_rows = <<>>
  /\ history = {}
  /\ yt_status = [v \in VideoIds |-> "public"]
  /\ task_queue = <<>>
  /\ video_limit = 1
  /\ RunIdle

\* get_listing_group_root found no row: (None, None).
NoRoot == [resource_name |-> NONE, type |-> NONE]

\* The locals of add_offers_to_ad_group before a call.
AdsCallIdle ==
  /\ ads_pc = "idle"
  /\ req_offers = <<>>
  /\ cpc_arg = <<>>
  /\ root_seen = NoRoot
  /\ effective_root = NONE
  /\ is_new_root = FALSE
  /\ existing_offers = {}
  /\ existing_queried = FALSE
  /\ operations = <<>>
  /\ mutate_calls = 0
  /\ ads_error = NONE
  /\ submitted = <<>>
  /\ ads_failure = <<>>
  /\ ads_log = <<>>

\* No Video(...) call made.
VideoInitIdle ==
  /\ video_args = <<>>
  /\ video_built = <<>>

\* No _get_youtube_video_info call started.
VideoInfoIdle ==
  /\ info_pc = "start"
  /\ info_video_ids = <<>>
  /\ missing_ids = {}
  /\ video_ids_chunks = <<>>
  /\ list_requests = <<>>
  /\ video_items = <<>>
  /\ info_returned = <<>>

\* No _get_videos_from_google_sheet call started, the GCS range empty.
SheetIdle ==
  /\ gcs_rows = <<>>
  /\ sheet_pc = "start"
  /\ yt_ids_videos = <<>>
  /\ gcs_uris_videos = <<>>
  /\ prefix_i = 0
  /\ sheet_log = <<>>
  /\ sheet_result = <<>>

\* video_content before it is assigned.
NoContent == [kind |-> NONE, name |-> NONE, state |-> NONE]

\* The locals of analyze_video before a call, the API holding no file.
AnalyzeCallIdle ==
  /\ an_pc = "start"
  /\ video_content = NoContent
  /\ api_files = {}
  /\ file_state = NONE
  /\ upload_calls = 0
  /\ observed = <<>>
  /\ elapsed = 0
  /\ attempt_number = 1
  /\ generate_calls = 0
  /\ pending_error = NONE
  /\ delete_calls = <<>>
  /\ an_error = NONE

AnalyzeIdle ==
  /\ an_video = [video_id |-> "v1", gcs_uri |-> NONE]
  /\ AnalyzeCallIdle

FnIdle == VideoInitIdle /\ VideoInfoIdle /\ SheetIdle /\ AnalyzeIdle

\* The insertion job before it starts, with an empty requests table.
JobIdle ==
  /\ requests = <<>>
  /\ request_uuid_arg = NONE
  /\ job_pc = "start"
  /\ updates = <<>>
  /\ update_i = 0
  /\ results_by_request = <<>>
  /\ ads_calls = <<>>
  /\ fetch_calls = 0
  /\ status_inserts = <<>>
  /\ job_error = NONE

AdsIdle ==
  /\ ads_root = NoRoot
  /\ ads_leaves = {}
  /\ applied_offers = {}
  /\ calls = 0
  /\ AdsCallIdle

----------------------------------------------------------------------------
\* VideoQueuer.get_videos, in the order of its statements.

\* A row of video_analysis as insert_video_analysis writes it for a video.
HistoryRow(video) == [video_id |-> video.video_id, gcs_uri |-> video.gcs_uri]

HistoryRows ==
  {[video_id |-> v, gcs_uri |-> NONE] : v \in VideoIds}
    \cup {[video_id |-> NONE, gcs_uri |-> g] : g \in GcsUris}

\* A lookup made by the run and whether it returned (ok) or raised.
Lookup(what, ok) == [what |-> what, ok |-> ok]

\* Lines 138-142: collect the candidates of the configured sources.
Collect ==
  /\ pc = "start"
  /\ videos' = CollectVideos
  /\ reads' = reads \o <<Lookup("sheet", TRUE), Lookup("ads", TRUE)>>
  /\ pc' = "collected"
  /\ UNCHANGED <<fn_vars, job_vars, queue_checks, env_vars, ads_vars, video_limit, processed,
                 unprocessed_videos, excluded_videos_info, output, lookup_ids,
                 queue_seen_empty, push_i, pushed, run_error, runs>>

\* Lines 142 and 274-278: the ads_videos query raises;
\* _get_videos_from_google_ads raises BigQueryReadError, which leaves
\* get_videos.
AdsQueryFails ==
  /\ pc = "start"
  /\ reads' = reads \o <<Lookup("sheet", TRUE), Lookup("ads", FALSE)>>
  /\ run_error' = "BigQueryReadError"
  /\ pc' = "failed"
  /\ UNCHANGED <<fn_vars, job_vars, queue_checks, env_vars, ads_vars,
                 video_limit, videos, processed, unprocessed_videos,
                 excluded_videos_info, output, lookup_ids, queue_seen_empty,
                 push_i, pushed, runs>>

\* Lines 144-165: read the processed history, then the dedup pass.
ReadProcessedAndDedup ==
  /\ pc = "collected"
  /\ processed' = GetProcessedVideos
  /\ reads' = Append(reads, Lookup("history", TRUE))
  /\ unprocessed_videos' =
       Dedup(videos, processed'[1], processed'[2], {}, {})
  /\ pc' = "deduped"
  /\ UNCHANGED <<fn_vars, job_vars, queue_checks, env_vars, ads_vars, video_limit, videos,
                 excluded_videos_info, output, lookup_ids, queue_seen_empty,
                 push_i, pushed, run_error, runs>>

\* The failed history query taken for an empty history.
ProcessedQueryFailsSwallowed ==
  /\ pc = "collected"
  /\ reads' = Append(reads, Lookup("history", FALSE))
  /\ processed' = <<{}, {}>>
  /\ unprocessed_videos' = Dedup(videos, {}, {}, {}, {})
  /\ pc' = "deduped"
  /\ UNCHANGED <<fn_vars, job_vars, queue_checks, env_vars, ads_vars,
                 video_limit, videos, excluded_videos_info, output,
                 lookup_ids, queue_seen_empty, push_i, pushed, run_error,
                 runs>>

\* Lines 144 and 465-469: the video_analysis query raises;
\* _get_processed_videos raises BigQueryReadError, which leaves get_videos.
ProcessedQueryFails ==
  /\ pc = "collected"
  /\ reads' = Append(reads, Lookup("history", FALSE))
  /\ run_error' = "BigQueryReadError"
  /\ pc' = "failed"
  /\ UNCHANGED <<fn_vars, job_vars, queue_checks, env_vars, ads_vars,
                 video_limit, videos, processed, unprocessed_videos,
                 excluded_videos_info, output, lookup_ids, queue_seen_empty,
                 push_i, pushed, runs>>

\* Lines 167-192: the visibility lookup and the removal of non-public videos.
FilterVisibility ==
  /\ pc = "deduped"
  /\ LET r == VisibilityFilter(unprocessed_videos) IN
       /\ unprocessed_videos' = r.list
       /\ excluded_videos_info' = r.excluded
  /\ lookup_ids' = VideoIdsOf(YoutubeVideosOf(unprocessed_videos))
  /\ reads' = IF YoutubeVideosOf(unprocessed_videos) = <<>> THEN reads
              ELSE Append(reads, Lookup("youtube", TRUE))
  /\ pc' = "filtered"
  /\ UNCHANGED <<fn_vars, job_vars, queue_checks, env_vars, ads_vars, video_limit, videos, processed, output,
                 queue_seen_empty, push_i, pushed, run_error, runs>>

\* Lines 173 and 351-354: request.execute() of a videos().list request
\* raises; neither _get_youtube_video_info nor get_videos catches the error
\* of the API client, which leaves get_videos as it is.
VideoInfoRequestFails ==
  /\ pc = "deduped"
  /\ YoutubeVideosOf(unprocessed_videos) # <<>>
  /\ lookup_ids' = VideoIdsOf(YoutubeVideosOf(unprocessed_videos))
  /\ reads' = Append(reads, Lookup("youtube", FALSE))
  /\ run_error' = "HttpError"
  /\ pc' = "failed"
  /\ UNCHANGED <<fn_vars, job_vars, queue_checks, env_vars, ads_vars,
                 video_limit, videos, processed, unprocessed_videos,
                 excluded_videos_info, output, queue_seen_empty, push_i,
                 pushed, runs>>

\* Line 194: return unprocessed_videos[:video_limit].
ReturnVideos ==
  /\ pc = "filtered"
  /\ output' = Slice(unprocessed_videos, video_limit)
  /\ pc' = "returned"
  /\ UNCHANGED <<fn_vars, job_vars, reads, queue_checks, env_vars, ads_vars, video_limit, videos, processed,
                 unprocessed_videos, excluded_videos_info, lookup_ids,
                 queue_seen_empty, push_i, pushed, run_error, runs>>

GetVideosNext ==
  \/ Collect
  \/ AdsQueryFails
  \/ ReadProcessedAndDedup
  \/ ProcessedQueryFails
  \/ FilterVisibility
  \/ VideoInfoRequestFails
  \/ ReturnVideos

\* One call of get_videos on any source contents, history and limit.
InitVideos ==
  /\ sheet_ids \in SeqsUpTo(VideoIds, MaxSheetRows)
  /\ sheet_gcs \in SeqsUpTo(GcsUris, MaxGcsVideos)
  /\ ads_rows \in DistinctSeqsUpTo(VideoIds, MaxAdsRows)
  /\ history \in SUBSET HistoryRows
  /\ yt_status \in [VideoIds -> PrivacyStatuses \cup {"missing"}]
  /\ task_queue = <<>>
  /\ video_limit \in 1..MaxLimit
  /\ RunIdle
  /\ AdsIdle
  /\ JobIdle
  /\ FnIdle

SpecVideos == InitVideos /\ [][GetVideosNext]_vars

----------------------------------------------------------------------------
\* Properties of get_videos (checked under SpecVideos).

Returned == pc = "returned"

\* Whether the lookup reports a status other than "public" for the video.
ReportedNonPublic(video) ==
  /\ video.video_id # NONE
  /\ yt_status[video.video_id] \in PrivacyStatuses \ {"public"}

\* Whether the video's dedup key is in the processed history the run read.
InProcessed(video) ==
  \/ video.video_id # NONE /\ video.video_id \in processed[1]
  \/ video.gcs_uri # NONE /\ video.gcs_uri \in processed[2]

\* The position in the collected list of the first video with this key.
FirstIndex(key) ==
  CHOOSE k \in 1..Len(videos) :
    /\ DedupKey(videos[k]) = key
    /\ \A m \in 1..(k - 1) : DedupKey(videos[m]) # key

\* Equality of two videos up to the metadata attached by the visibility step.
SameVideo(a, b) ==
  /\ a.source = b.source
  /\ a.video_id = b.video_id
  /\ a.gcs_uri = b.gcs_uri

\* C1: the list returned by get_videos never holds two items with the same
\* dedup key.
C1_NoDuplicateKeys ==
  Returned =>
    \A i, j \in 1..Len(output) :
      DedupKey(output[i]) = DedupKey(output[j]) => i = j

\* A key collected twice, returned once.
C1_Witness ==
  /\ Returned
  /\ \E i, j \in 1..Len(videos) :
       /\ i < j
       /\ DedupKey(videos[i]) = DedupKey(videos[j])
       /\ \E k \in 1..Len(output) : DedupKey(output[k]) = DedupKey(videos[i])

\* C2: the list returned by get_videos never holds an item whose dedup key is
\* in the processed history read by _get_processed_videos.
C2_NoProcessedVideo ==
  Returned => \A i \in 1..Len(output) : ~InProcessed(output[i])

\* A processed id and a processed URI were collected and dropped, and
\* something else was returned.
C2_Witness ==
  /\ Returned
  /\ \E i, j \in 1..Len(videos) :
       /\ videos[i].video_id # NONE /\ InProcessed(videos[i])
       /\ videos[j].gcs_uri # NONE /\ InProcessed(videos[j])
  /\ output # <<>>

\* C3: a video whose reported visibility is not "public" is never returned,
\* whatever its position and whatever the limit.
C3_NoNonPublicVideo ==
  Returned => \A i \in 1..Len(output) : ~ReportedNonPublic(output[i])

\* Two non-public videos in a row were removed and a later item was returned.
C3_Witness ==
  /\ Returned
  /\ Len(excluded_videos_info) = 2
  /\ ReportedNonPublic(videos[1])
  /\ output # <<>>

\* The dedup keys that survive both filters.
SurvivingKeys ==
  {DedupKey(videos[i]) : i \in {k \in 1..Len(videos) :
     ~InProcessed(videos[k]) /\ ~ReportedNonPublic(videos[k])}}

\* C4: get_videos returns the first video_limit items of the deduplicated and
\* visibility-filtered list: never more than video_limit, and as many as the
\* filters left when that is fewer, so a filtered item uses up no place.
C4_TruncatedAfterFilters ==
  Returned =>
    /\ Len(output) <= video_limit
    /\ Len(output) = Min(video_limit, Cardinality(SurvivingKeys))
    /\ Len(output) <= Len(unprocessed_videos)
    /\ \A i \in 1..Len(output) : output[i] = unprocessed_videos[i]

\* Both filters dropped items, more than video_limit survived, and the list
\* was cut to video_limit.
C4_Witness ==
  /\ Returned
  /\ excluded_videos_info # <<>>
  /\ Len(videos) > Len(unprocessed_videos) + Len(excluded_videos_info)
  /\ Len(unprocessed_videos) > video_limit
  /\ Len(output) = video_limit

\* C5 as stated: the output has its ads-source items before its sheet-source
\* items.
C5_AdsBeforeSheet ==
  Returned =>
    \A i, j \in 1..Len(output) :
      i < j => ~(output[i].source = "manual_entry"
                 /\ output[j].source = "google_ads")

\* C5 amended: the output preserves the collection order, in which the
\* sheet-source items come before the ads-source items; no later step
\* reorders the surviving items.
C5_SheetBeforeAdsInOrder ==
  /\ pc # "start" =>
       \A i, j \in 1..Len(videos) :
         i < j => ~(videos[i].source = "google_ads"
                    /\ videos[j].source = "manual_entry")
  /\ Returned =>
       /\ \A i \in 1..Len(output) :
            SameVideo(output[i], videos[FirstIndex(DedupKey(output[i]))])
       /\ \A i, j \in 1..Len(output) :
            i < j =>
              /\ FirstIndex(DedupKey(output[i]))
                   < FirstIndex(DedupKey(output[j]))
              /\ ~(output[i].source = "google_ads"
                   /\ output[j].source = "manual_entry")

\* Items of both sources were returned.
C5_Witness ==
  /\ Returned
  /\ \E i, j \in 1..Len(output) :
       output[i].source = "manual_entry" /\ output[j].source = "google_ads"

\* The scenario of C6: history {v2}, ads [v1, v2], sheet [v1], limit 5, v1 not
\* reported non-public.
C6_Scenario ==
  /\ history = {[video_id |-> "v2", gcs_uri |-> NONE]}
  /\ ads_rows = <<"v1", "v2">>
  /\ sheet_ids = <<"v1">>
  /\ sheet_gcs = <<>>
  /\ video_limit = 5
  /\ yt_status["v1"] \in {"public", "missing"}

\* C6 as stated: in the scenario the output is exactly [v1] and the item kept
\* is the ads-source v1.
C6_KeepsAdsV1 ==
  (Returned /\ C6_Scenario) =>
    /\ Len(output) = 1
    /\ output[1].video_id = "v1"
    /\ output[1].source = "google_ads"

\* C6 amended: the dedup pass keeps the first collected occurrence of a key
\* and drops every later one; in the scenario the output is exactly [v1], the
\* item kept being the sheet-source v1, which is collected first.
C6_KeepsFirstCollectedV1 ==
  /\ Returned =>
       \A i \in 1..Len(output) :
         SameVideo(output[i], videos[FirstIndex(DedupKey(output[i]))])
  /\ (Returned /\ C6_Scenario) =>
       /\ Len(videos) = 3
       /\ Len(output) = 1
       /\ SameVideo(output[1], YoutubeVideo("manual_entry", "v1"))

C6_Witness == Returned /\ C6_Scenario /\ yt_status["v1"] = "public"

\* The lookups of the run that went to one source.
LookupsOf(what) == SelectSeq(reads, LAMBDA r : r.what = what)

\* C21: when the processed-history query or the ads-source query fails,
\* get_videos fails with BigQueryReadError: it returns no list, makes no
\* visibility lookup and no further read, and the failed query is not made a
\* second time.
C21_ReadErrorIsFatal ==
  /\ \A i \in 1..Len(reads) :
       (reads[i].what \in {"ads", "history"} /\ ~reads[i].ok) =>
         /\ pc = "failed"
         /\ run_error = "BigQueryReadError"
         /\ output = <<>>
         /\ lookup_ids = <<>>
         /\ LookupsOf("youtube") = <<>>
         /\ i = Len(reads)
         /\ Len(LookupsOf(reads[i].what)) = 1
  /\ Returned => \A i \in 1..Len(reads) : reads[i].ok

\* The history query failed after YouTube candidates had been collected.
C21_Witness ==
  /\ pc = "failed"
  /\ reads[Len(reads)] = Lookup("history", FALSE)
  /\ YoutubeVideosOf(videos) # <<>>

\* class Error and its subclasses in queue_videos_lib.
ModuleErrors ==
  {"Error", "BigQueryReadError", "CloudTasksPublishError",
   "CloudTasksQueueNotEmptyError"}

\* C22: when a metadata (visibility) request fails, get_videos fails with a
\* typed error of the module, as for a history lookup failure; no list is
\* returned and the request is not made a second time.
C22_MetadataFailureTyped ==
  \A i \in 1..Len(reads) :
    (reads[i].what = "youtube" /\ ~reads[i].ok) =>
      /\ pc = "failed"
      /\ run_error \in ModuleErrors
      /\ output = <<>>
      /\ Len(LookupsOf("youtube")) = 1

\* The metadata response has an item for the video and its status is not
\* "public".
RespondedNonPublic(v) ==
  /\ v.video_id # NONE
  /\ yt_status[v.video_id] \notin {"missing", "public"}

\* The metadata response has an item for the video and its status is
\* "public".
RespondedPublic(v) ==
  /\ v.video_id # NONE
  /\ yt_status[v.video_id] = "public"

\* What the visibility step does to the list it is given.
VisibilityStepFrame ==
  (pc = "deduped" /\ pc' = "filtered") =>
    LET kept == SelectSeq(unprocessed_videos,
                          LAMBDA v : ~RespondedNonPublic(v)) IN
      /\ Len(unprocessed_videos') = Len(kept)
      /\ \A i \in 1..Len(kept) :
           unprocessed_videos'[i] =
             (IF RespondedPublic(kept[i])
              THEN [kept[i] EXCEPT !.metadata = <<YtTitle(kept[i].video_id)>>]
              ELSE kept[i])
      /\ lookup_ids' =
           VideoIdsOf(SelectSeq(unprocessed_videos,
                                LAMBDA v : v.video_id # NONE))
      /\ \A k \in 1..Len(lookup_ids') : lookup_ids'[k] \in VideoIds

\* C28: the visibility step of get_videos removes an item if and only if the
\* metadata response has its video_id with a status other than "public"; an
\* item whose id is missing from the response and every gcs_uri item stays at
\* its relative position with its fields unchanged, a retained "public" item
\* gets the reported title, and no gcs_uri item is sent to the lookup.
C28_VisibilityRemovesOnlyNonPublic == [][VisibilityStepFrame]_vars

\* The step removed a non-public video and kept a video missing from the
\* response and a storage video.
C28_Witness ==
  /\ pc = "filtered"
  /\ excluded_videos_info # <<>>
  /\ \E i \in 1..Len(unprocessed_videos) :
       /\ unprocessed_videos[i].video_id # NONE
       /\ yt_status[unprocessed_videos[i].video_id] = "missing"
  /\ \E i \in 1..Len(unprocessed_videos) :
       /\ unprocessed_videos[i].gcs_uri # NONE
       /\ unprocessed_videos[i].video_id = NONE
  /\ \A k \in 1..Len(lookup_ids) : lookup_ids[k] # NONE

----------------------------------------------------------------------------
\* The discovery job _queue_videos after get_videos returned, and the
\* analysis tasks that consume the queue.

\* The task push_videos creates for a video.
Task(video) == [video |-> video, recorded |-> FALSE]

\* The sequence without its i-th element.
RemoveAt(list, i) == SubSeq(list, 1, i - 1) \o SubSeq(list, i + 1, Len(list))

\* is_queue_empty: not bool(list(response.tasks)).
IsQueueEmpty == task_queue = <<>>

\* _queue_videos, the else branch: no video was found.
NoNewVideos ==
  /\ pc = "returned"
  /\ output = <<>>
  /\ pc' = "done"
  /\ UNCHANGED <<fn_vars, job_vars, reads, queue_checks, env_vars, ads_vars, video_limit, videos, processed,
                 unprocessed_videos, excluded_videos_info, output, lookup_ids,
                 queue_seen_empty, push_i, pushed, run_error, runs>>

\* The run going on to push_videos although is_queue_empty answers False.
QueueNotEmptyPushes ==
  /\ pc = "returned"
  /\ output # <<>>
  /\ ~IsQueueEmpty
  /\ queue_seen_empty' = FALSE
  /\ queue_checks' = queue_checks + 1
  /\ push_i' = 0
  /\ pc' = "pushing"
  /\ UNCHANGED <<fn_vars, job_vars, reads, env_vars, ads_vars, video_limit, videos, processed,
                 unprocessed_videos, excluded_videos_info, output, lookup_ids,
                 pushed, run_error, runs>>

\* _queue_videos: videos were found and is_queue_empty answers False.
QueueNotEmpty ==
  /\ pc = "returned"
  /\ output # <<>>
  /\ ~IsQueueEmpty
  /\ queue_seen_empty' = FALSE
  /\ queue_checks' = queue_checks + 1
  /\ run_error' = "CloudTasksQueueNotEmptyError"
  /\ pc' = "failed"
  /\ UNCHANGED <<fn_vars, job_vars, reads, env_vars, ads_vars, video_limit, videos, processed,
                 unprocessed_videos, excluded_videos_info, output, lookup_ids,
                 push_i, pushed, runs>>

\* _queue_videos: videos were found and is_queue_empty answers True.
QueueEmpty ==
  /\ pc = "returned"
  /\ output # <<>>
  /\ IsQueueEmpty
  /\ queue_seen_empty' = TRUE
  /\ queue_checks' = queue_checks + 1
  /\ push_i' = 0
  /\ pc' = "pushing"
  /\ UNCHANGED <<fn_vars, job_vars, reads, env_vars, ads_vars, video_limit, videos, processed,
                 unprocessed_videos, excluded_videos_info, output, lookup_ids,
                 pushed, run_error, runs>>

\* push_videos: one create_task call, for the next video of the list.
PushVideo ==
  /\ pc = "pushing"
  /\ push_i < Len(output)
  /\ task_queue' = Append(task_queue, Task(output[push_i + 1]))
  /\ pushed' = [pushed EXCEPT ![DedupKey(output[push_i + 1])] = @ + 1]
  /\ push_i' = push_i + 1
  /\ UNCHANGED <<fn_vars, job_vars, reads, queue_checks, sheet_ids, sheet_gcs, ads_rows, history, yt_status, ads_vars,
                 pc, video_limit, videos, processed, unprocessed_videos,
                 excluded_videos_info, output, lookup_ids, queue_seen_empty,
                 run_error, runs>>

\* push_videos returns after the last video.
FinishPush ==
  /\ pc = "pushing"
  /\ push_i = Len(output)
  /\ pc' = "done"
  /\ UNCHANGED <<fn_vars, job_vars, reads, queue_checks, env_vars, ads_vars, video_limit, videos, processed,
                 unprocessed_videos, excluded_videos_info, output, lookup_ids,
                 queue_seen_empty, push_i, pushed, run_error, runs>>

\* The scheduler starts the next run of the job.
NewRun ==
  /\ pc \in {"done", "failed"}
  /\ runs < MaxRuns
  /\ runs' = runs + 1
  /\ pc' = "start"
  /\ videos' = <<>>
  /\ processed' = <<{}, {}>>
  /\ unprocessed_videos' = <<>>
  /\ excluded_videos_info' = <<>>
  /\ output' = <<>>
  /\ lookup_ids' = <<>>
  /\ queue_seen_empty' = FALSE
  /\ push_i' = 0
  /\ run_error' = NONE
  /\ reads' = <<>>
  /\ queue_checks' = 0
  /\ UNCHANGED <<fn_vars, job_vars, env_vars, ads_vars, video_limit, pushed>>

\* The analysis function handles a task of the queue: _analyze_video ends by
\* inserting the video's row into video_analysis.
AnalysisInsert(i) ==
  /\ ~task_queue[i].recorded
  /\ history' = history \cup {HistoryRow(task_queue[i].video)}
  /\ task_queue' = [task_queue EXCEPT ![i].recorded = TRUE]
  /\ UNCHANGED <<fn_vars, job_vars, sheet_ids, sheet_gcs, ads_rows, yt_status, ads_vars,
                 run_vars>>

\* The function answers 200 and Cloud Tasks deletes the task.
AnalysisAck(i) ==
  /\ task_queue[i].recorded
  /\ task_queue' = RemoveAt(task_queue, i)
  /\ UNCHANGED <<fn_vars, job_vars, sheet_ids, sheet_gcs, ads_rows, history, yt_status, ads_vars,
                 run_vars>>

QueueNext ==
  \/ GetVideosNext
  \/ NoNewVideos
  \/ QueueNotEmpty
  \/ QueueEmpty
  \/ PushVideo
  \/ FinishPush
  \/ NewRun
  \/ \E i \in 1..Len(task_queue) : AnalysisInsert(i)
  \/ \E i \in 1..Len(task_queue) : AnalysisAck(i)

\* Repeated runs of the job on fixed sources, starting with no history and an
\* empty queue.
InitQueue ==
  /\ sheet_ids \in SeqsUpTo(VideoIds, MaxSheetRows)
  /\ sheet_gcs \in SeqsUpTo(GcsUris, MaxGcsVideos)
  /\ ads_rows \in DistinctSeqsUpTo(VideoIds, MaxAdsRows)
  /\ history = {}
  /\ yt_status \in [VideoIds -> {"public", "private"}]
  /\ task_queue = <<>>
  /\ video_limit \in 1..MaxQueueLimit
  /\ RunIdle
  /\ AdsIdle
  /\ JobIdle
  /\ FnIdle

SpecQueue == InitQueue /\ [][QueueNext]_vars

\* C7: no video is ever pushed to the task queue a second time.
C7_PushedAtMostOnce == \A k \in DOMAIN pushed : pushed[k] <= 1

\* C26: in one run of _queue_videos tasks are created only after get_videos
\* returned at least one video and the one is_queue_empty call of the run
\* answered that the queue is empty; a run that found videos and was told
\* the queue is not empty ends with CloudTasksQueueNotEmptyError and has
\* created no task; a run that found no video has neither checked the queue
\* nor created a task.
C26_TasksOnlyIntoEmptyQueue ==
  /\ queue_checks <= 1
  /\ queue_checks = 1 => output # <<>>
  /\ push_i > 0 =>
       /\ output # <<>>
       /\ queue_checks = 1
       /\ queue_seen_empty
       /\ run_error = NONE
  /\ (queue_checks = 1 /\ ~queue_seen_empty) =>
       /\ pc = "failed"
       /\ run_error = "CloudTasksQueueNotEmptyError"
       /\ push_i = 0
  /\ run_error = "CloudTasksQueueNotEmptyError" =>
       (queue_checks = 1 /\ ~queue_seen_empty)
  /\ (pc = "done" /\ output = <<>>) => (queue_checks = 0 /\ push_i = 0)
  /\ (pc = "done" /\ output # <<>>) => push_i = Len(output)

\* A later run found a video while a task was still queued and raised.
C26_Witness ==
  /\ runs > 1
  /\ pc = "failed"
  /\ run_error = "CloudTasksQueueNotEmptyError"
  /\ output # <<>>
  /\ task_queue # <<>>
  /\ push_i = 0

----------------------------------------------------------------------------
\* AdsService: the listing group tree of one ad group and the operations of
\* a batch.

OfferIds == {"A", "B"}

\* The case value of the catch-all leaf: a product_item_id with no value.
CatchAll == ""

\* cpc_bid_micros when the argument is None.
DefaultCpcBidMicros == 10000

\* The values of the cpc_bid_micros argument: None or a bid.
CpcArgs == {<<>>, <<250000>>}

ExistingRootName == "customers/1/adGroupCriteria/10~1"
CreatedRootName == "customers/1/adGroupCriteria/10~2"

\* ad_group_criterion_path(customer_id, ad_group_id, temp_root_id = -1).
TempRootName == "customers/1/adGroupCriteria/10~-1"

\* op_remove.remove = root_resource_name
RemoveOp(resource_name) ==
  [kind |-> "remove", resource_name |-> resource_name, type |-> NONE,
   parent |-> NONE, offer |-> CatchAll, cpc_bid_micros |-> 0]

\* op_root.create: the SUBDIVISION root under its temporary resource name.
CreateRootOp(resource_name) ==
  [kind |-> "create", resource_name |-> resource_name,
   type |-> "SUBDIVISION", parent |-> NONE, offer |-> CatchAll,
   cpc_bid_micros |-> 0]

\* A create operation for a UNIT node under parent: op_other (offer is
\* CatchAll) and _create_offer_operation.
CreateUnitOp(parent, offer, cpc_bid_micros) ==
  [kind |-> "create", resource_name |-> NONE, type |-> "UNIT",
   parent |-> parent, offer |-> offer, cpc_bid_micros |-> cpc_bid_micros]

\* effective_cpc_bid_micros.
EffectiveCpc(arg) == IF arg = <<>> THEN DefaultCpcBidMicros ELSE arg[1]

\* _handle_root_node without the catch-all leaf.
HandleRootNodeNoCatchAll(root_resource_name, root_type, cpc_bid_micros) ==
  IF ~Truthy(root_resource_name) \/ root_type = "UNIT"
  THEN [effective_root |-> TempRootName,
        operations |->
          (IF Truthy(root_resource_name)
           THEN <<RemoveOp(root_resource_name)>> ELSE <<>>)
          \o <<CreateRootOp(TempRootName)>>,
        is_new_root |-> TRUE]
  ELSE [effective_root |-> root_resource_name, operations |-> <<>>,
        is_new_root |-> FALSE]

\* _handle_root_node appending the removal after the two creations.
HandleRootNodeRemoveLast(root_resource_name, root_type, cpc_bid_micros) ==
  IF ~Truthy(root_resource_name) \/ root_type = "UNIT"
  THEN [effective_root |-> TempRootName,
        operations |->
          <<CreateRootOp(TempRootName),
            CreateUnitOp(TempRootName, CatchAll, cpc_bid_micros)>>
          \o (IF Truthy(root_resource_name)
              THEN <<RemoveOp(root_resource_name)>> ELSE <<>>),
        is_new_root |-> TRUE]
  ELSE [effective_root |-> root_resource_name, operations |-> <<>>,
        is_new_root |-> FALSE]

\* _handle_root_node returning the name of the root it was given as the
\* effective root also when it replaces that root.
HandleRootNodeOldParent(root_resource_name, root_type, cpc_bid_micros) ==
  IF ~Truthy(root_resource_name) \/ root_type = "UNIT"
  THEN [effective_root |-> root_resource_name,
        operations |->
          (IF Truthy(root_resource_name)
           THEN <<RemoveOp(root_resource_name)>> ELSE <<>>)
          \o <<CreateRootOp(TempRootName),
               CreateUnitOp(TempRootName, CatchAll, cpc_bid_micros)>>,
        is_new_root |-> TRUE]
  ELSE [effective_root |-> root_resource_name, operations |-> <<>>,
        is_new_root |-> FALSE]

\* _handle_root_node: (effective_root_resource_name, operations, is_new_root).
HandleRootNode(root_resource_name, root_type, cpc_bid_micros) ==
  IF ~Truthy(root_resource_name) \/ root_type = "UNIT"
  THEN [effective_root |-> TempRootName,
        operations |->
          (IF Truthy(root_resource_name)
           THEN <<RemoveOp(root_resource_name)>> ELSE <<>>)
          \o <<CreateRootOp(TempRootName),
               CreateUnitOp(TempRootName, CatchAll, cpc_bid_micros)>>,
        is_new_root |-> TRUE]
  ELSE [effective_root |-> root_resource_name, operations |-> <<>>,
        is_new_root |-> FALSE]

\* get_existing_offers: the product_item_id values of the children of parent
\* that have one.
GetExistingOffers(parent_resource_name) ==
  IF parent_resource_name = ads_root.resource_name
  THEN {v \in ads_leaves : Truthy(v)}
  ELSE {}

\* The enumerations of a set.
Orders(S) == {o \in [1..Cardinality(S) -> S] : Range(o) = S}

\* The request list iterated as it is.
OfferOrdersNoSet(offer_ids) == {offer_ids}

\* list(set(offer_ids)): the distinct ids, in the order the set yields them.
OfferOrders(offer_ids) == Orders(Range(offer_ids))

\* The leaf loop without its membership test.
LeafOpsNoSkip(order, existing, root, cpc_bid_micros) ==
  [i \in 1..Len(order) |-> CreateUnitOp(root, order[i], cpc_bid_micros)]

\* The loop of lines 288-296: one create operation per id not in existing.
LeafOps(order, existing, root, cpc_bid_micros) ==
  LET kept == SelectSeq(order, LAMBDA o : o \notin existing) IN
  [i \in 1..Len(kept) |-> CreateUnitOp(root, kept[i], cpc_bid_micros)]

\* The platform applies the operations of a batch in order.
RECURSIVE ApplyOps(_, _)
ApplyOps(ops, tree) ==
  IF ops = <<>> THEN tree
  ELSE LET op == Head(ops) IN
    ApplyOps(Tail(ops),
      IF op.kind = "remove" THEN
        IF op.resource_name = tree.root.resource_name
        THEN [root |-> NoRoot, leaves |-> {}]
        ELSE tree
      ELSE IF op.type = "SUBDIVISION" THEN
        [root |-> [resource_name |-> CreatedRootName,
                   type |-> "SUBDIVISION"],
         leaves |-> {}]
      ELSE [tree EXCEPT !.leaves = @ \cup {op.offer}])

----------------------------------------------------------------------------
\* AdsService.add_offers_to_ad_group, in the order of its statements.

ads_locals == <<req_offers, cpc_arg, root_seen, effective_root, is_new_root,
                existing_offers, existing_queried, operations, mutate_calls,
                ads_error, submitted, ads_failure, ads_log>>

\* A caller invokes add_offers_to_ad_group(ad_group_id, offer_ids, ...).
StartCall(offer_ids, cpc) ==
  /\ ads_pc = "idle"
  /\ calls < MaxCalls
  /\ calls' = calls + 1
  /\ req_offers' = offer_ids
  /\ cpc_arg' = cpc
  /\ ads_pc' = "lookup"
  /\ UNCHANGED <<fn_vars, job_vars, env_vars, run_vars, ads_root, ads_leaves, root_seen,
                 effective_root, is_new_root, existing_offers,
                 existing_queried, operations, mutate_calls, ads_error, submitted,
                 ads_failure, ads_log,
                 applied_offers>>

\* Lines 262-264: get_listing_group_root.
LookupRoot ==
  /\ ads_pc = "lookup"
  /\ root_seen' = ads_root
  /\ ads_pc' = "root_known"
  /\ UNCHANGED <<fn_vars, job_vars, env_vars, run_vars, ads_root, ads_leaves, req_offers,
                 cpc_arg, effective_root, is_new_root, existing_offers,
                 existing_queried, operations, mutate_calls, ads_error, submitted,
                 ads_failure, ads_log,
                 applied_offers, calls>>

\* Lines 267-275: _handle_root_node and operations = list(root_ops).
HandleRoot ==
  /\ ads_pc = "root_known"
  /\ LET r == HandleRootNode(root_seen.resource_name, root_seen.type,
                             EffectiveCpc(cpc_arg)) IN
       /\ effective_root' = r.effective_root
       /\ operations' = r.operations
       /\ is_new_root' = r.is_new_root
  /\ ads_pc' = "handled"
  /\ UNCHANGED <<fn_vars, job_vars, env_vars, run_vars, ads_root, ads_leaves, req_offers,
                 cpc_arg, root_seen, existing_offers, existing_queried,
                 mutate_calls, ads_error, submitted,
                 ads_failure, ads_log, applied_offers, calls>>

\* Lines 277-278: a new root has no existing offers, no query is made.
SkipExistingOffers ==
  /\ ads_pc = "handled"
  /\ is_new_root
  /\ existing_offers' = {}
  /\ ads_pc' = "have_existing"
  /\ UNCHANGED <<fn_vars, job_vars, env_vars, run_vars, ads_root, ads_leaves, req_offers,
                 cpc_arg, root_seen, effective_root, is_new_root,
                 existing_queried, operations, mutate_calls, ads_error, submitted,
                 ads_failure, ads_log,
                 applied_offers, calls>>

\* Lines 279-284: get_existing_offers under the reused root.
QueryExistingOffers ==
  /\ ads_pc = "handled"
  /\ ~is_new_root
  /\ existing_offers' = GetExistingOffers(effective_root)
  /\ existing_queried' = TRUE
  /\ ads_pc' = "have_existing"
  /\ UNCHANGED <<fn_vars, job_vars, env_vars, run_vars, ads_root, ads_leaves, req_offers,
                 cpc_arg, root_seen, effective_root, is_new_root, operations,
                 mutate_calls, ads_error, submitted,
                 ads_failure, ads_log, applied_offers, calls>>

\* Lines 286-296: the loop over list(set(offer_ids)).
BuildLeafOps ==
  /\ ads_pc = "have_existing"
  /\ \E order \in OfferOrders(req_offers) :
       operations' = operations \o
         LeafOps(order, existing_offers, effective_root,
                 EffectiveCpc(cpc_arg))
  /\ ads_pc' = "built"
  /\ UNCHANGED <<fn_vars, job_vars, env_vars, run_vars, ads_root, ads_leaves, req_offers,
                 cpc_arg, root_seen, effective_root, is_new_root,
                 existing_offers, existing_queried, mutate_calls, ads_error, submitted,
                 ads_failure, ads_log,
                 applied_offers, calls>>

\* A line of the log.
LogLine(level, what, text, count) ==
  [level |-> level, what |-> what, text |-> text, count |-> count]

\* ex.failure.errors: each error has a message and, when it has a location,
\* the field names of its field path.
PlatformErrors ==
  {[message |-> "Listing group already exists",
    field_path |-> <<"operations", "create">>],
   [message |-> "Internal error", field_path |-> <<>>]}

Failures == SeqsUpTo(PlatformErrors, MaxErrors) \ {<<>>}

\* Lines 317-321: the message of every error, then each field name of its
\* field path.
RECURSIVE ErrorLines(_)
ErrorLines(errors) ==
  IF errors = <<>> THEN <<>>
  ELSE LET error == Head(errors) IN
    <<LogLine("error", "message", error.message, 0)>>
      \o [i \in 1..Len(error.field_path) |->
            LogLine("error", "field", error.field_path[i], 0)]
      \o ErrorLines(Tail(errors))

\* The empty batch sent to the platform all the same.
ReturnNoOperationsMutating ==
  /\ ads_pc = "built"
  /\ operations = <<>>
  /\ mutate_calls' = mutate_calls + 1
  /\ submitted' = Append(submitted, operations)
  /\ ads_log' = Append(ads_log, LogLine("info", "mutated", "", 0))
  /\ applied_offers' = applied_offers \cup Range(req_offers)
  /\ ads_pc' = "returned"
  /\ UNCHANGED <<fn_vars, job_vars, env_vars, run_vars, ads_root, ads_leaves, req_offers,
                 cpc_arg, root_seen, effective_root, is_new_root,
                 existing_offers, existing_queried, operations, ads_error,
                 ads_failure, calls>>

\* Lines 298-300: nothing to add, return without a mutate call.
ReturnNoOperations ==
  /\ ads_pc = "built"
  /\ operations = <<>>
  /\ ads_log' = Append(ads_log, LogLine("info", "no offers", "", 0))
  /\ applied_offers' = applied_offers \cup Range(req_offers)
  /\ ads_pc' = "returned"
  /\ UNCHANGED <<fn_vars, job_vars, env_vars, run_vars, ads_root, ads_leaves, req_offers,
                 cpc_arg, root_seen, effective_root, is_new_root,
                 existing_offers, existing_queried, operations, mutate_calls,
                 ads_error, submitted, ads_failure, calls>>

\* Lines 302-310: mutate_ad_group_criteria succeeds, the batch is applied and
\* the response holds one result per operation.
MutateSucceeds ==
  /\ ads_pc = "built"
  /\ operations # <<>>
  /\ mutate_calls' = mutate_calls + 1
  /\ submitted' = Append(submitted, operations)
  /\ LET tree == ApplyOps(operations,
                          [root |-> ads_root, leaves |-> ads_leaves]) IN
       /\ ads_root' = tree.root
       /\ ads_leaves' = tree.leaves
  /\ ads_log' = Append(ads_log,
                       LogLine("info", "mutated", "", Len(operations)))
  /\ applied_offers' = applied_offers \cup Range(req_offers)
  /\ ads_pc' = "returned"
  /\ UNCHANGED <<fn_vars, job_vars, env_vars, run_vars, req_offers, cpc_arg, root_seen,
                 effective_root, is_new_root, existing_offers,
                 existing_queried, operations, ads_error, ads_failure, calls>>

\* The failure logged and the same batch sent once more before giving up.
MutateFailsRetry(errors) ==
  /\ ads_pc = "built"
  /\ operations # <<>>
  /\ mutate_calls' = mutate_calls + 1
  /\ submitted' = Append(submitted, operations)
  /\ ads_log' = ads_log
       \o <<LogLine("error", "request failed", "", 0)>>
       \o ErrorLines(errors)
  /\ IF mutate_calls = 0
     THEN UNCHANGED <<fn_vars, job_vars, ads_error, ads_failure, ads_pc>>
     ELSE /\ ads_error' = "GoogleAdsException"
          /\ ads_failure' = errors
          /\ ads_pc' = "failed"
  /\ UNCHANGED <<fn_vars, job_vars, env_vars, run_vars, ads_root, ads_leaves, req_offers,
                 cpc_arg, root_seen, effective_root, is_new_root,
                 existing_offers, existing_queried, operations,
                 applied_offers, calls>>

\* Lines 311-322: mutate_ad_group_criteria raises GoogleAdsException, which is
\* logged and raised again; nothing of the batch is applied.
MutateFails(errors) ==
  /\ ads_pc = "built"
  /\ operations # <<>>
  /\ mutate_calls' = mutate_calls + 1
  /\ submitted' = Append(submitted, operations)
  /\ ads_log' = ads_log
       \o <<LogLine("error", "request failed", "", 0)>>
       \o ErrorLines(errors)
  /\ ads_error' = "GoogleAdsException"
  /\ ads_failure' = errors
  /\ ads_pc' = "failed"
  /\ UNCHANGED <<fn_vars, job_vars, env_vars, run_vars, ads_root, ads_leaves, req_offers,
                 cpc_arg, root_seen, effective_root, is_new_root,
                 existing_offers, existing_queried, operations,
                 applied_offers, calls>>

\* The call is over: its locals are gone.
EndCall ==
  /\ ads_pc \in {"returned", "failed"}
  /\ ads_pc' = "idle"
  /\ req_offers' = <<>>
  /\ cpc_arg' = <<>>
  /\ root_seen' = NoRoot
  /\ effective_root' = NONE
  /\ is_new_root' = FALSE
  /\ existing_offers' = {}
  /\ existing_queried' = FALSE
  /\ operations' = <<>>
  /\ mutate_calls' = 0
  /\ ads_error' = NONE
  /\ submitted' = <<>>
  /\ ads_failure' = <<>>
  /\ ads_log' = <<>>
  /\ UNCHANGED <<fn_vars, job_vars, env_vars, run_vars, ads_root, ads_leaves, applied_offers,
                 calls>>

AdsNext ==
  \/ \E offer_ids \in SeqsUpTo(OfferIds, MaxOffers), cpc \in CpcArgs :
       StartCall(offer_ids, cpc)
  \/ LookupRoot
  \/ HandleRoot
  \/ SkipExistingOffers
  \/ QueryExistingOffers
  \/ BuildLeafOps
  \/ ReturnNoOperations
  \/ MutateSucceeds
  \/ \E errors \in Failures : MutateFails(errors)
  \/ EndCall

\* The trees an ad group can have: no root, a UNIT root, or a SUBDIVISION root
\* with its catch-all leaf and any offers.
InitAds ==
  /\ \/ ads_root = NoRoot /\ ads_leaves = {}
     \/ /\ ads_root = [resource_name |-> ExistingRootName, type |-> "UNIT"]
        /\ ads_leaves = {}
     \/ /\ ads_root = [resource_name |-> ExistingRootName,
                       type |-> "SUBDIVISION"]
        /\ \E present \in SUBSET OfferIds :
             ads_leaves = {CatchAll} \cup present
  /\ applied_offers = {}
  /\ calls = 0
  /\ AdsCallIdle
  /\ DiscoveryIdle
  /\ JobIdle
  /\ FnIdle

SpecAds == InitAds /\ [][AdsNext]_vars

----------------------------------------------------------------------------
\* Properties of add_offers_to_ad_group (checked under SpecAds).

\* The batch of the call is complete.
BatchBuilt == ads_pc \in {"built", "returned", "failed"}

\* Positions of the operations of the batch, by kind.
RemoveOps == {i \in 1..Len(operations) : operations[i].kind = "remove"}
RootCreateOps ==
  {i \in 1..Len(operations) :
     operations[i].kind = "create" /\ operations[i].type = "SUBDIVISION"}
UnitCreateOps(offer) ==
  {i \in 1..Len(operations) :
     /\ operations[i].kind = "create"
     /\ operations[i].type = "UNIT"
     /\ operations[i].offer = offer}

\* The offer is a UNIT leaf under the ad group's SUBDIVISION root.
IsExistingLeaf(offer) ==
  ads_root.type = "SUBDIVISION" /\ offer \in ads_leaves

\* The root the UNIT nodes of the batch belong under, given the root that
\* get_listing_group_root returned.
ExpectedParent ==
  IF Truthy(root_seen.resource_name) /\ root_seen.type = "SUBDIVISION"
  THEN root_seen.resource_name
  ELSE TempRootName

\* Positions of all create-UNIT operations of the batch.
AllUnitCreateOps ==
  {i \in 1..Len(operations) :
     operations[i].kind = "create" /\ operations[i].type = "UNIT"}

\* C27: in the batch of add_offers_to_ad_group every create-UNIT operation
\* (catch-all and offer leaves) has as parent the effective root: the name of
\* the existing root when a SUBDIVISION root is reused, the temporary name of
\* the root created in the batch otherwise; the batch has at most one root
\* create operation (none when the root is reused), and it stands before
\* every operation that names it as parent.
C27_UnitsUnderEffectiveRoot ==
  ads_pc \in {"handled", "have_existing", "built"} =>
    /\ effective_root = ExpectedParent
    /\ \A i \in AllUnitCreateOps : operations[i].parent = ExpectedParent
    /\ Cardinality(RootCreateOps) =
         (IF ExpectedParent = TempRootName THEN 1 ELSE 0)
    /\ \A r \in RootCreateOps :
         /\ operations[r].resource_name = TempRootName
         /\ \A i \in AllUnitCreateOps :
              operations[i].parent = TempRootName => r < i

\* A batch that replaces a UNIT root and puts an offer leaf under the
\* temporary root.
C27_Witness ==
  /\ ads_pc = "built"
  /\ root_seen.type = "UNIT"
  /\ \E i \in AllUnitCreateOps :
       /\ operations[i].offer # CatchAll
       /\ operations[i].parent = TempRootName
  /\ Cardinality(RootCreateOps) = 1

\* C8: for each offer id the batch holds no create operation when the id is
\* already a leaf under the SUBDIVISION root (or is not requested) and exactly
\* one otherwise, however often the id occurs in the request; a call made
\* after a call with the same offers succeeded holds none for them.
C8_NoDoubleInsert ==
  ads_pc = "built" =>
    /\ \A o \in OfferIds :
         Cardinality(UnitCreateOps(o)) =
           IF o \in Range(req_offers) /\ ~IsExistingLeaf(o) THEN 1 ELSE 0
    /\ \A o \in Range(req_offers) \cap applied_offers :
         UnitCreateOps(o) = {}

\* A second call repeating an id in its request, with one id already applied
\* by the first call and one new id.
C8_Witness ==
  /\ ads_pc = "built"
  /\ calls = 2
  /\ Len(req_offers) > Cardinality(Range(req_offers))
  /\ \E o \in Range(req_offers) :
       o \in applied_offers /\ UnitCreateOps(o) = {}
  /\ \E o \in Range(req_offers) : Cardinality(UnitCreateOps(o)) = 1

\* C9: when the lookup finds no root, the batch starts with the one create
\* operation of a SUBDIVISION root and the one create operation of the
\* catch-all leaf, every offer leaf comes after them, and no existing-offers
\* query is made.
C9_NoRootCreatesRootAndCatchAll ==
  (BatchBuilt /\ root_seen = NoRoot) =>
    /\ Len(operations) >= 2
    /\ operations[1] = CreateRootOp(TempRootName)
    /\ operations[2] =
         CreateUnitOp(TempRootName, CatchAll, EffectiveCpc(cpc_arg))
    /\ RootCreateOps = {1}
    /\ UnitCreateOps(CatchAll) = {2}
    /\ RemoveOps = {}
    /\ \A o \in OfferIds : \A i \in UnitCreateOps(o) : i > 2
    /\ ~existing_queried
    /\ existing_offers = {}

\* No root was found and two offers were added after the root operations.
C9_Witness ==
  /\ ads_pc = "built"
  /\ root_seen = NoRoot
  /\ Len(operations) = 4

\* C10: when the existing root is a UNIT, the batch starts with the one
\* remove operation, targeting that root, followed by the creation of the
\* SUBDIVISION root and of the catch-all; no call emits a second remove
\* operation.
C10_UnitRootRemovedFirst ==
  /\ BatchBuilt => Cardinality(RemoveOps) <= 1
  /\ (BatchBuilt /\ root_seen.type = "UNIT") =>
       /\ Len(operations) >= 3
       /\ operations[1] = RemoveOp(root_seen.resource_name)
       /\ root_seen.resource_name = ExistingRootName
       /\ RemoveOps = {1}
       /\ operations[2] = CreateRootOp(TempRootName)
       /\ operations[3] =
            CreateUnitOp(TempRootName, CatchAll, EffectiveCpc(cpc_arg))
       /\ RootCreateOps = {2}

\* A UNIT root was found and offers were added after its replacement.
C10_Witness ==
  /\ ads_pc = "built"
  /\ root_seen.type = "UNIT"
  /\ Len(operations) > 3

\* C11: when the root found is a SUBDIVISION, the batch holds nothing but one
\* create-UNIT operation under that root for each requested offer that is not
\* yet a leaf: no remove, no root creation, no catch-all creation, nothing
\* for an existing leaf.  With existing leaf "A" and request {"A", "B"} the
\* batch is exactly [create UNIT "B"].
C11_SubdivisionRootAdditiveOnly ==
  (ads_pc = "built" /\ root_seen.type = "SUBDIVISION") =>
    /\ RemoveOps = {}
    /\ RootCreateOps = {}
    /\ UnitCreateOps(CatchAll) = {}
    /\ \A l \in ads_leaves : UnitCreateOps(l) = {}
    /\ \A i \in 1..Len(operations) :
         /\ operations[i].offer \in Range(req_offers) \ ads_leaves
         /\ operations[i] =
              CreateUnitOp(root_seen.resource_name, operations[i].offer,
                           EffectiveCpc(cpc_arg))
    /\ (ads_leaves \cap OfferIds = {"A"} /\ Range(req_offers) = {"A", "B"}) =>
         operations = <<CreateUnitOp(root_seen.resource_name, "B",
                                     EffectiveCpc(cpc_arg))>>

\* A SUBDIVISION root with leaf "A" was found and {"A", "B"} requested.
C11_Witness ==
  /\ ads_pc = "built"
  /\ root_seen.type = "SUBDIVISION"
  /\ ads_leaves = {CatchAll, "A"}
  /\ Range(req_offers) = {"A", "B"}
  /\ Len(operations) = 1

\* The scenario of C12: no root is found and offers "A" and "B" are requested.
C12_Scenario ==
  /\ root_seen = NoRoot
  /\ req_offers = <<"A", "B">>

\* C12 as stated: in the scenario the batch is exactly the ordered list
\* [create SUBDIVISION root, create catch-all UNIT, create UNIT "A",
\* create UNIT "B"], and committing it succeeds with 4 operations.
C12_ExactOrderedBatch ==
  /\ (BatchBuilt /\ C12_Scenario) =>
       operations =
         <<CreateRootOp(TempRootName),
           CreateUnitOp(TempRootName, CatchAll, EffectiveCpc(cpc_arg)),
           CreateUnitOp(TempRootName, "A", EffectiveCpc(cpc_arg)),
           CreateUnitOp(TempRootName, "B", EffectiveCpc(cpc_arg))>>
  /\ (ads_pc = "returned" /\ C12_Scenario) =>
       /\ submitted = <<operations>>
       /\ ads_log = <<LogLine("info", "mutated", "", 4)>>

\* C12 amended: in the scenario the single batch is [create SUBDIVISION root,
\* create catch-all UNIT] followed by create UNIT "A" and create UNIT "B",
\* once each, in the order list(set(offer_ids)) yields them (either order);
\* committing it succeeds with 4 operations: one mutate call, 4 results
\* logged, no error.
C12_RootCatchAllThenBothLeaves ==
  /\ (BatchBuilt /\ C12_Scenario) =>
       /\ Len(operations) = 4
       /\ operations[1] = CreateRootOp(TempRootName)
       /\ operations[2] =
            CreateUnitOp(TempRootName, CatchAll, EffectiveCpc(cpc_arg))
       /\ {operations[3], operations[4]} =
            {CreateUnitOp(TempRootName, "A", EffectiveCpc(cpc_arg)),
             CreateUnitOp(TempRootName, "B", EffectiveCpc(cpc_arg))}
  /\ (ads_pc = "returned" /\ C12_Scenario) =>
       /\ submitted = <<operations>>
       /\ mutate_calls = 1
       /\ ads_log = <<LogLine("info", "mutated", "", 4)>>
       /\ ads_error = NONE

\* The scenario's batch was committed.
C12_Witness ==
  /\ ads_pc = "returned"
  /\ C12_Scenario
  /\ Len(submitted) = 1

\* C13: the accumulated operations of a call are submitted in one batch mutate
\* call, made only when the batch is complete; when the accumulated list is
\* empty no mutate call is made and the call returns without error and
\* without any change to the tree.
C13_SingleBatchOrNoCall ==
  /\ mutate_calls = Len(submitted)
  /\ ads_pc \notin {"returned", "failed"} => submitted = <<>>
  /\ ads_pc \in {"returned", "failed"} =>
       /\ operations # <<>> => submitted = <<operations>>
       /\ operations = <<>> =>
            /\ submitted = <<>>
            /\ ads_pc = "returned"
            /\ ads_error = NONE
            /\ Range(req_offers) \subseteq existing_offers
            /\ ads_root = root_seen
            /\ {l \in ads_leaves : Truthy(l)} = existing_offers

\* Every requested offer was already a leaf of the SUBDIVISION root and the
\* call returned.
C13_Witness ==
  /\ ads_pc = "returned"
  /\ root_seen.type = "SUBDIVISION"
  /\ req_offers # <<>>
  /\ operations = <<>>
  /\ submitted = <<>>

\* The texts of the lines of the log of one kind.
LoggedTexts(what) ==
  LET lines == SelectSeq(ads_log, LAMBDA l : l.what = what) IN
  [i \in 1..Len(lines) |-> lines[i].text]

\* The field names of the field paths of the errors, in order.
RECURSIVE FieldNames(_)
FieldNames(errors) ==
  IF errors = <<>> THEN <<>>
  ELSE Head(errors).field_path \o FieldNames(Tail(errors))

\* C14: when the batch mutate call fails with a platform error the call makes
\* no further mutate call (the one batch was submitted once, nothing of it is
\* applied), and the failure reaches the caller: the exception is raised
\* again with its errors, and the message and the field path of every error
\* are logged.
C14_FailureAbortsAndSurfaces ==
  /\ ads_pc = "failed" =>
       /\ mutate_calls = 1
       /\ submitted = <<operations>>
       /\ ads_error = "GoogleAdsException"
       /\ ads_failure \in Failures
       /\ ads_root = root_seen
       /\ LoggedTexts("request failed") = <<"">>
       /\ LoggedTexts("message") =
            [i \in 1..Len(ads_failure) |-> ads_failure[i].message]
       /\ LoggedTexts("field") = FieldNames(ads_failure)
       /\ LoggedTexts("mutated") = <<>>
  /\ ads_pc # "failed" => (ads_error = NONE /\ ads_failure = <<>>)

\* A batch failed with two errors, one of them with a field path.
C14_Witness ==
  /\ ads_pc = "failed"
  /\ Len(ads_failure) = 2
  /\ ads_failure[1].field_path # <<>>
  /\ ads_failure[2].field_path = <<>>
  /\ Len(operations) > 1

----------------------------------------------------------------------------
\* The ad-group insertion job: cloud_run/main.py and BigQueryService.

STATUS_SUCCESS == "SUCCESS"
STATUS_PARTIAL_SUCCESS == "PARTIAL_SUCCESS"
STATUS_FAILED == "FAILED"

RequestUuids == {"r1", "r2"}
AdGroupIds == {10, 20}

\* The offer_ids column of a request row (its list form).
RequestOfferIds == <<"A">>

\* The values of the cpc column: NULL, a decimal number, not a number.
CpcValues == {NONE, "0.25", "abc"}

\* float(cpc_val) succeeds.
CpcIsNumber(cpc_val) == cpc_val = "0.25"

\* cpc_bid_micros: None for NULL, otherwise int(float(cpc_val) * 1_000_000).
CpcBidMicros(cpc_val) == IF cpc_val = NONE THEN <<>> ELSE <<250000>>

\* An entry of the destinations column.
Destination(adgroup_id) ==
  [adgroup_id |-> adgroup_id, campaign_id |-> 7, ads_customer_id |-> 1]

\* A row of the insertion requests table.
RequestRows ==
  [request_uuid : RequestUuids,
   video_uuid : {"v1"},
   offer_ids : {RequestOfferIds},
   destinations :
     {[i \in 1..Len(ds) |-> Destination(ds[i])] :
        ds \in SeqsUpTo(AdGroupIds, MaxDestinations)},
   cpc : CpcValues]

\* The rows the query of fetch_pending_updates selects: all of them, or those
\* of the request given by --request-uuid.
SelectedRows(rows, request_uuid) ==
  IF Truthy(request_uuid)
  THEN SelectSeq(rows, LAMBDA row : row.request_uuid = request_uuid)
  ELSE rows

\* AdGroupUpdate(...) for one destination of a row.
AdGroupUpdate(row, dest) ==
  [ad_group_id |-> dest.adgroup_id,
   campaign_id |-> dest.campaign_id,
   cpc_bid_micros |-> CpcBidMicros(row.cpc),
   customer_id |-> dest.ads_customer_id,
   offer_ids |-> row.offer_ids,
   request_uuid |-> row.request_uuid,
   video_analysis_uuid |-> row.video_uuid]

\* fetch_pending_updates, the loops of lines 124-155: one update per
\* destination of every row, in row order.
RECURSIVE PendingUpdates(_)
PendingUpdates(rows) ==
  IF rows = <<>> THEN <<>>
  ELSE [i \in 1..Len(Head(rows).destinations) |->
          AdGroupUpdate(Head(rows), Head(rows).destinations[i])]
       \o PendingUpdates(Tail(rows))

\* Whether the conversion of lines 134-141 raises ValueError for some row.
SomeCpcInvalid(rows) ==
  \E i \in 1..Len(rows) : rows[i].cpc # NONE /\ ~CpcIsNumber(rows[i].cpc)

\* ProductResult: the result of one offer of an update.
ProductResult(offer_id, status) == [offer_id |-> offer_id, status |-> status]

\* The product lists a result can carry for the offers of an update: none, or
\* one product per offer with its status.
ProductLists(offer_ids) ==
  {<<>>} \cup
  {[i \in 1..Len(offer_ids) |-> ProductResult(offer_ids[i], st[i])] :
     st \in [1..Len(offer_ids) -> {STATUS_SUCCESS, STATUS_FAILED}]}

\* The results add_offers_to_ad_group returns to main for an update: the
\* update's identifiers, a product list and an error message or None.
AddOffersResults(update) ==
  [customer_id : {update.customer_id},
   campaign_id : {<<update.campaign_id>>},
   ad_group_id : {update.ad_group_id},
   products : ProductLists(update.offer_ids),
   error_message : {NONE, "Request failed"}]

\* _calculate_status_for_products over the status of each product.
CalculateStatusForProducts(products) ==
  IF products = <<>> THEN STATUS_SUCCESS
  ELSE LET has_failure == \E i \in 1..Len(products) :
                            products[i] = STATUS_FAILED
           has_success == \E i \in 1..Len(products) :
                            products[i] # STATUS_FAILED
       IN IF has_success /\ has_failure THEN STATUS_PARTIAL_SUCCESS
          ELSE IF has_failure THEN STATUS_FAILED
          ELSE STATUS_SUCCESS

\* Lines 79-84: the statuses of the products of every entity, an entity with
\* an error message and no product counting as one failed product.
RECURSIVE AllProducts(_)
AllProducts(ads_entities) ==
  IF ads_entities = <<>> THEN <<>>
  ELSE LET entity == Head(ads_entities) IN
    [i \in 1..Len(entity.products) |-> entity.products[i].status]
      \o (IF Truthy(entity.error_message) /\ entity.products = <<>>
          THEN <<STATUS_FAILED>> ELSE <<>>)
      \o AllProducts(Tail(ads_entities))

\* The position in the dict of the entry of a request: 0 when it has none.
RequestIndex(results, request_uuid) ==
  IF \E k \in 1..Len(results) : results[k].request_uuid = request_uuid
  THEN CHOOSE k \in 1..Len(results) : results[k].request_uuid = request_uuid
  ELSE 0

\* Lines 63-75: the entity record of a result.
EntityRecord(result) ==
  [customer_id |-> result.customer_id,
   campaign_id |-> IF result.campaign_id = <<>> THEN -1
                   ELSE result.campaign_id[1],
   ad_group_id |-> result.ad_group_id,
   products |-> result.products,
   error_message |-> result.error_message]

\* _update_request_status.
UpdateRequestStatus(results, update, result) ==
  LET with_entry ==
        IF RequestIndex(results, update.request_uuid) = 0
        THEN Append(results,
                    [request_uuid |-> update.request_uuid,
                     status |-> STATUS_SUCCESS,
                     ads_entities |-> <<>>,
                     timestamp |-> "utcnow"])
        ELSE results
      k == RequestIndex(with_entry, update.request_uuid)
      ads_entities == Append(with_entry[k].ads_entities, EntityRecord(result))
  IN [with_entry EXCEPT
        ![k].ads_entities = ads_entities,
        ![k].status = CalculateStatusForProducts(AllProducts(ads_entities))]

\* main, line 122: fetch_pending_updates returns the updates.
FetchPendingUpdates ==
  /\ job_pc = "start"
  /\ ~SomeCpcInvalid(SelectedRows(requests, request_uuid_arg))
  /\ fetch_calls' = fetch_calls + 1
  /\ updates' = PendingUpdates(SelectedRows(requests, request_uuid_arg))
  /\ update_i' = 0
  /\ job_pc' = "loop"
  /\ UNCHANGED <<fn_vars, env_vars, run_vars, ads_vars, requests, request_uuid_arg,
                 results_by_request, ads_calls, status_inserts, job_error>>

\* main, line 122: fetch_pending_updates raises ValueError for a cpc value
\* that is not a number; main logs it and raises it again.
FetchFails ==
  /\ job_pc = "start"
  /\ SomeCpcInvalid(SelectedRows(requests, request_uuid_arg))
  /\ fetch_calls' = fetch_calls + 1
  /\ job_error' = "ValueError"
  /\ job_pc' = "failed"
  /\ UNCHANGED <<fn_vars, env_vars, run_vars, ads_vars, requests, request_uuid_arg,
                 updates, update_i, results_by_request, ads_calls,
                 status_inserts>>

\* main, lines 127-142: the call for the next update returns a result, which
\* _update_request_status records.
ProcessUpdate(result) ==
  /\ job_pc = "loop"
  /\ update_i < Len(updates)
  /\ ads_calls' = Append(ads_calls, updates[update_i + 1])
  /\ results_by_request' =
       UpdateRequestStatus(results_by_request, updates[update_i + 1], result)
  /\ update_i' = update_i + 1
  /\ UNCHANGED <<fn_vars, env_vars, run_vars, ads_vars, requests, request_uuid_arg,
                 job_pc, updates, fetch_calls, status_inserts, job_error>>

\* The failing call handled by writing the status rows gathered so far
\* before the exception is raised again.
ProcessUpdateRaisesRecords ==
  /\ job_pc = "loop"
  /\ update_i < Len(updates)
  /\ ads_calls' = Append(ads_calls, updates[update_i + 1])
  /\ status_inserts' =
       IF results_by_request # <<>>
       THEN Append(status_inserts, results_by_request)
       ELSE status_inserts
  /\ job_error' = "GoogleAdsException"
  /\ job_pc' = "failed"
  /\ UNCHANGED <<fn_vars, env_vars, run_vars, ads_vars, requests, request_uuid_arg,
                 updates, update_i, results_by_request, fetch_calls>>

\* main, lines 137-150: the call for the next update raises (the platform
\* error add_offers_to_ad_group raises again); the exception leaves the loop,
\* is logged and raised again.
ProcessUpdateRaises ==
  /\ job_pc = "loop"
  /\ update_i < Len(updates)
  /\ ads_calls' = Append(ads_calls, updates[update_i + 1])
  /\ job_error' = "GoogleAdsException"
  /\ job_pc' = "failed"
  /\ UNCHANGED <<fn_vars, env_vars, run_vars, ads_vars, requests, request_uuid_arg,
                 updates, update_i, results_by_request, fetch_calls,
                 status_inserts>>

\* main, lines 144-146: _record_job_status after the last update; the rows
\* are inserted when there are any.
RecordJobStatus ==
  /\ job_pc = "loop"
  /\ update_i = Len(updates)
  /\ status_inserts' =
       IF results_by_request # <<>>
       THEN Append(status_inserts, results_by_request)
       ELSE status_inserts
  /\ job_pc' = "done"
  /\ UNCHANGED <<fn_vars, env_vars, run_vars, ads_vars, requests, request_uuid_arg,
                 updates, update_i, results_by_request, ads_calls,
                 fetch_calls, job_error>>

\* main, lines 144-150: insert_rows_json reports errors and
\* record_insertion_status raises RuntimeError.
RecordJobStatusFails ==
  /\ job_pc = "loop"
  /\ update_i = Len(updates)
  /\ results_by_request # <<>>
  /\ job_error' = "RuntimeError"
  /\ job_pc' = "failed"
  /\ UNCHANGED <<fn_vars, env_vars, run_vars, ads_vars, requests, request_uuid_arg,
                 updates, update_i, results_by_request, ads_calls,
                 fetch_calls, status_inserts>>

\* The results the call for the next update of the loop can return.
NextResults ==
  IF job_pc = "loop" /\ update_i < Len(updates)
  THEN AddOffersResults(updates[update_i + 1])
  ELSE {}

JobNext ==
  \/ FetchPendingUpdates
  \/ FetchFails
  \/ \E result \in NextResults : ProcessUpdate(result)
  \/ ProcessUpdateRaises
  \/ RecordJobStatus
  \/ RecordJobStatusFails

\* One execution of the job on any requests table.
InitJob ==
  /\ requests \in SeqsUpTo(RequestRows, MaxRequests)
  /\ request_uuid_arg \in {NONE, "r1"}
  /\ job_pc = "start"
  /\ updates = <<>>
  /\ update_i = 0
  /\ results_by_request = <<>>
  /\ ads_calls = <<>>
  /\ fetch_calls = 0
  /\ status_inserts = <<>>
  /\ job_error = NONE
  /\ DiscoveryIdle
  /\ AdsIdle
  /\ FnIdle

SpecJob == InitJob /\ [][JobNext]_vars

----------------------------------------------------------------------------
\* Properties of the insertion job (checked under SpecJob).

JobOver == job_pc \in {"done", "failed"}

\* The entity records written to the status table by this execution.
RECURSIVE EntitiesOfRows(_)
EntitiesOfRows(rows) ==
  IF rows = <<>> THEN <<>>
  ELSE Head(rows).ads_entities \o EntitiesOfRows(Tail(rows))

RECURSIVE RecordedEntities(_)
RecordedEntities(inserts) ==
  IF inserts = <<>> THEN <<>>
  ELSE EntitiesOfRows(Head(inserts)) \o RecordedEntities(Tail(inserts))

\* The rows of the requests table belong to different requests and none of
\* them names an ad group twice.
DestinationsDistinct ==
  /\ \A n, m \in 1..Len(requests) :
       requests[n].request_uuid = requests[m].request_uuid => n = m
  /\ \A n \in 1..Len(requests) :
       \A i, j \in 1..Len(requests[n].destinations) :
         requests[n].destinations[i] = requests[n].destinations[j] => i = j

\* The updates fetched target pairwise different ad groups.
AdGroupsDistinct ==
  \A i, j \in 1..Len(updates) :
    updates[i].ad_group_id = updates[j].ad_group_id => i = j

\* C15: when the reconciliation of one ad group fails, every other update
\* returned by fetch_pending_updates is still processed and its result
\* recorded, whatever the position of the failing update (stated for updates
\* that target different ad groups).
C15_FailuresIndependent ==
  (JobOver /\ job_error = "GoogleAdsException" /\ AdGroupsDistinct) =>
    /\ Len(ads_calls) = Len(updates)
    /\ Len(RecordedEntities(status_inserts)) >= Len(updates) - 1

\* The ad group of an entity succeeded: no error message, no failed product.
EntitySucceeded(entity) ==
  /\ ~Truthy(entity.error_message)
  /\ \A i \in 1..Len(entity.products) :
       entity.products[i].status # STATUS_FAILED

\* The ad group of an entity failed: an error message, no product that is
\* not failed.
EntityFailed(entity) ==
  /\ Truthy(entity.error_message)
  /\ \A i \in 1..Len(entity.products) :
       entity.products[i].status = STATUS_FAILED

\* The status of a request whose ad groups each succeeded or failed: by all,
\* none or some of them having succeeded.
TriState(ads_entities) ==
  LET succeeded == {i \in 1..Len(ads_entities) :
                      EntitySucceeded(ads_entities[i])}
  IN IF Cardinality(succeeded) = Len(ads_entities) THEN STATUS_SUCCESS
     ELSE IF succeeded = {} THEN STATUS_FAILED
     ELSE STATUS_PARTIAL_SUCCESS

----------------------------------------------------------------------------
\* common.Video: the dataclass and its __post_init__.

\* The arguments a Video(...) call can be given; NONE is an argument left at
\* its default.
VideoArgs ==
  [source : {"gcs", "manual_entry"},
   uuid : {NONE, "u1"},
   video_id : {NONE, "", "v1"},
   gcs_uri : {NONE, "gs://b/g1.mp4"},
   md5_hash : {NONE, "h1", "h2"}]

\* str(uuid.uuid5(uuid.NAMESPACE_URL, seed)): a name-based hash, determined by
\* the seed and taken to be free of collisions.
Uuid5(seed) == "uuid5:" \o seed

\* The object a successful construction leaves.
Constructed(args, uuid) ==
  [ok |-> TRUE, source |-> args.source, uuid |-> uuid,
   video_id |-> args.video_id, gcs_uri |-> args.gcs_uri,
   md5_hash |-> args.md5_hash, error |-> NONE, message |-> ""]

\* A construction that raised.
Rejected(args, error, message) ==
  [ok |-> FALSE, source |-> args.source, uuid |-> args.uuid,
   video_id |-> args.video_id, gcs_uri |-> args.gcs_uri,
   md5_hash |-> args.md5_hash, error |-> error, message |-> message]

\* __post_init__ accepting GCS data of which only one part is given.
PostInitIncompleteGcs(args) ==
  IF args.video_id # NONE THEN
    IF args.gcs_uri # NONE \/ args.md5_hash # NONE
    THEN Rejected(args, "ValueError", "Ambiguous")
    ELSE Constructed(args,
                     IF args.uuid = NONE THEN args.video_id ELSE args.uuid)
  ELSE IF args.gcs_uri # NONE \/ args.md5_hash # NONE THEN
    Constructed(args,
                IF args.uuid = NONE
                THEN Uuid5((IF args.gcs_uri = NONE THEN "" ELSE args.gcs_uri)
                           \o (IF args.md5_hash = NONE THEN ""
                               ELSE args.md5_hash))
                ELSE args.uuid)
  ELSE Rejected(args, "ValueError", "Missing")

\* __post_init__ with the source made part of the seed of the uuid.
PostInitSeedWithSource(args) ==
  IF args.video_id # NONE THEN
    IF args.gcs_uri # NONE \/ args.md5_hash # NONE
    THEN Rejected(args, "ValueError", "Ambiguous")
    ELSE Constructed(args,
                     IF args.uuid = NONE THEN args.video_id ELSE args.uuid)
  ELSE IF args.gcs_uri # NONE /\ args.md5_hash # NONE THEN
    Constructed(args,
                IF args.uuid = NONE
                THEN Uuid5(args.source \o args.gcs_uri \o args.md5_hash)
                ELSE args.uuid)
  ELSE Rejected(args, "ValueError", "Missing")

\* Video.__post_init__.
PostInit(args) ==
  IF args.video_id # NONE THEN
    IF args.gcs_uri # NONE \/ args.md5_hash # NONE
    THEN Rejected(args, "ValueError", "Ambiguous")
    ELSE Constructed(args,
                     IF args.uuid = NONE THEN args.video_id ELSE args.uuid)
  ELSE IF args.gcs_uri # NONE /\ args.md5_hash # NONE THEN
    Constructed(args,
                IF args.uuid = NONE
                THEN Uuid5(args.gcs_uri \o args.md5_hash)
                ELSE args.uuid)
  ELSE Rejected(args, "ValueError", "Missing")

\* A caller constructs Video(**args).
ConstructVideo(args) ==
  /\ Len(video_args) < MaxVideos
  /\ video_args' = Append(video_args, args)
  /\ video_built' = Append(video_built, PostInit(args))
  /\ UNCHANGED <<env_vars, run_vars, ads_vars, job_vars, info_pc,
                 info_video_ids, missing_ids, video_ids_chunks,
                 list_requests, video_items, info_returned, sheet_vars,
                 analyze_vars>>

VideoInitNext == \E args \in VideoArgs : ConstructVideo(args)

InitVideoInit ==
  /\ VideoInitIdle
  /\ VideoInfoIdle
  /\ SheetIdle
  /\ AnalyzeIdle
  /\ DiscoveryIdle
  /\ AdsIdle
  /\ JobIdle

SpecVideoInit == InitVideoInit /\ [][VideoInitNext]_vars

\* The identification a call supplies.
SuppliesVideoIdOnly(args) ==
  args.video_id # NONE /\ args.gcs_uri = NONE /\ args.md5_hash = NONE
SuppliesGcsOnly(args) ==
  args.video_id = NONE /\ args.gcs_uri # NONE /\ args.md5_hash # NONE

C19_UuidDerived ==
  \A k \in 1..Len(video_built) :
    video_built[k].ok =>
      /\ video_built[k].video_id # NONE =>
           video_built[k].uuid = video_built[k].video_id
      /\ video_built[k].video_id = NONE =>
           \A j \in 1..Len(video_built) :
             (/\ video_built[j].ok
              /\ video_built[j].video_id = NONE
              /\ video_built[j].gcs_uri = video_built[k].gcs_uri
              /\ video_built[j].md5_hash = video_built[k].md5_hash)
               => video_built[j].uuid = video_built[k].uuid

\* C19 amended: a uuid passed to the constructor is kept; when none is
\* passed, the uuid is the video_id if there is one, and otherwise the
\* name-based hash of gcs_uri followed by md5_hash, so that two Videos built
\* without a uuid from the same gcs_uri and md5_hash have the same uuid,
\* whatever their source.
C19_UuidDerivedWhenNotSupplied ==
  \A k \in 1..Len(video_built) :
    video_built[k].ok =>
      /\ video_args[k].uuid # NONE => video_built[k].uuid = video_args[k].uuid
      /\ (video_args[k].uuid = NONE /\ video_built[k].video_id # NONE) =>
           video_built[k].uuid = video_built[k].video_id
      /\ (video_args[k].uuid = NONE /\ video_built[k].video_id = NONE) =>
           /\ video_built[k].uuid =
                Uuid5(video_built[k].gcs_uri \o video_built[k].md5_hash)
           /\ \A j \in 1..Len(video_built) :
                (/\ video_built[j].ok
                 /\ video_args[j].uuid = NONE
                 /\ video_built[j].video_id = NONE
                 /\ video_built[j].gcs_uri = video_built[k].gcs_uri
                 /\ video_built[j].md5_hash = video_built[k].md5_hash)
                  => video_built[j].uuid = video_built[k].uuid

\* Two Videos of different sources were built without a uuid from the same
\* gcs_uri and md5_hash.
C19_Witness ==
  /\ Len(video_built) = 2
  /\ video_built[1].ok /\ video_built[2].ok
  /\ video_args[1].uuid = NONE /\ video_args[2].uuid = NONE
  /\ video_args[1].video_id = NONE /\ video_args[2].video_id = NONE
  /\ video_args[1].source # video_args[2].source
  /\ video_args[1].gcs_uri = video_args[2].gcs_uri
  /\ video_args[1].md5_hash = video_args[2].md5_hash

----------------------------------------------------------------------------
\* VideoQueuer._get_youtube_video_info: the requests it sends.

\* The number of ids of a chunk.
ChunkSize == 50

\* Python's list[a:b] for 0 <= a <= b.
PySlice(list, a, b) == SubSeq(list, a + 1, Min(b, Len(list)))

\* The comprehension of lines 345-347 with chunks that overlap by one id.
RECURSIVE ChunksFromOverlapping(_, _)
ChunksFromOverlapping(video_ids, i) ==
  IF i >= Len(video_ids) THEN <<>>
  ELSE <<PySlice(video_ids, i, i + ChunkSize + 1)>>
       \o ChunksFromOverlapping(video_ids, i + ChunkSize)

\* The comprehension of lines 345-347, from index i on:
\* [video_ids[i : i + 50] for i in range(i, len(video_ids), 50)].
RECURSIVE ChunksFrom(_, _)
ChunksFrom(video_ids, i) ==
  IF i >= Len(video_ids) THEN <<>>
  ELSE <<PySlice(video_ids, i, i + ChunkSize)>>
       \o ChunksFrom(video_ids, i + ChunkSize)

\* An item of a videos().list response.
VideoItem(id) == [id |-> id, privacyStatus |-> "public", title |-> "Title"]

\* The items of the response to a request: one per id YouTube knows.
ResponseItems(chunk) ==
  LET known == SelectSeq(chunk, LAMBDA id : id \notin missing_ids) IN
  [i \in 1..Len(known) |-> VideoItem(known[i])]

\* Lines 345-347: the chunks are built.
MakeChunks ==
  /\ info_pc = "start"
  /\ video_ids_chunks' = ChunksFrom(info_video_ids, 0)
  /\ info_pc' = "requesting"
  /\ UNCHANGED <<analyze_vars, sheet_vars, env_vars, run_vars, ads_vars, job_vars, video_args,
                 video_built, info_video_ids, missing_ids, list_requests,
                 video_items, info_returned>>

\* Lines 350-355: the request for the next chunk is sent and its items kept.
SendListRequest ==
  /\ info_pc = "requesting"
  /\ Len(list_requests) < Len(video_ids_chunks)
  /\ LET chunk == video_ids_chunks[Len(list_requests) + 1] IN
       /\ list_requests' = Append(list_requests, chunk)
       /\ video_items' = video_items \o ResponseItems(chunk)
  /\ UNCHANGED <<analyze_vars, sheet_vars, env_vars, run_vars, ads_vars, job_vars, video_args,
                 video_built, info_pc, info_video_ids, missing_ids,
                 video_ids_chunks, info_returned>>

\* Lines 357-363: the dictionary is built and returned.
ReturnVideoInfo ==
  /\ info_pc = "requesting"
  /\ Len(list_requests) = Len(video_ids_chunks)
  /\ info_returned' =
       [id \in {video_items[i].id : i \in 1..Len(video_items)} |->
          <<"public", "Title">>]
  /\ info_pc' = "done"
  /\ UNCHANGED <<analyze_vars, sheet_vars, env_vars, run_vars, ads_vars, job_vars, video_args,
                 video_built, info_video_ids, missing_ids, video_ids_chunks,
                 list_requests, video_items>>

VideoInfoNext ==
  \/ MakeChunks
  \/ SendListRequest
  \/ ReturnVideoInfo

\* One call on a list of any length up to MaxIds (the ids numbered in list
\* order), YouTube knowing all of them or all but one.
InitVideoInfo ==
  /\ \E n \in 0..MaxIds : info_video_ids = [i \in 1..n |-> i]
  /\ missing_ids \in {{}, {2}}
  /\ info_pc = "start"
  /\ video_ids_chunks = <<>>
  /\ list_requests = <<>>
  /\ video_items = <<>>
  /\ info_returned = <<>>
  /\ VideoInitIdle
  /\ SheetIdle
  /\ AnalyzeIdle
  /\ DiscoveryIdle
  /\ AdsIdle
  /\ JobIdle

SpecVideoInfo == InitVideoInfo /\ [][VideoInfoNext]_vars

\* The ids of the requests, one after the other.
RECURSIVE Concatenated(_)
Concatenated(lists) ==
  IF lists = <<>> THEN <<>>
  ELSE Head(lists) \o Concatenated(Tail(lists))

\* C20: when the call is over, for n ids exactly ceil(n / 50) requests were
\* sent, each with 1 to 50 ids, all but the last with 50, and the ids of the
\* requests in request order are the input list; 52 ids give two requests,
\* of 50 and of 2 ids.
C20_ChunkedRequests ==
  info_pc = "done" =>
    LET n == Len(info_video_ids) IN
    /\ Len(list_requests) * 50 >= n
    /\ (Len(list_requests) - 1) * 50 < n \/ (n = 0 /\ list_requests = <<>>)
    /\ \A k \in 1..Len(list_requests) :
         /\ Len(list_requests[k]) >= 1
         /\ Len(list_requests[k]) <= 50
         /\ k < Len(list_requests) => Len(list_requests[k]) = 50
    /\ Concatenated(list_requests) = info_video_ids
    /\ n = 52 =>
         /\ Len(list_requests) = 2
         /\ Len(list_requests[1]) = 50
         /\ Len(list_requests[2]) = 2

\* The call on 52 ids is over.
C20_Witness ==
  /\ info_pc = "done"
  /\ Len(info_video_ids) = 52
  /\ Len(list_requests) = 2

----------------------------------------------------------------------------
\* VideoQueuer._get_videos_from_google_sheet and _process_gcs_uri.

\* The values of the GCS range: a folder URI, and a URI without a path.
SheetGcsUris == {"gs://b/folder/", "gs://b"}

\* common.split_gcs_uri: (bucket, path) when GCS_URI_PATTERN matches, which
\* takes a non-empty path after the bucket; <<>> when it does not match and
\* ValueError is raised.
SplitGcsUri(gcs_uri) ==
  IF gcs_uri = "gs://b/folder/" THEN <<"b", "folder/">> ELSE <<>>

\* gcs_uri.endswith("/")
EndsWithSlash(gcs_uri) == gcs_uri = "gs://b/folder/"

\* A blob of the bucket: its name, the last component and the last characters
\* of the name, whether blob.reload() succeeds, and its md5_hash property.
StorageBlobs ==
  {[name |-> "folder/x.MP4", title |-> "x.MP4", suffix |-> ".MP4",
    reload_ok |-> TRUE, md5_hash |-> "aDE="],
   [name |-> "folder/notes.txt", title |-> "notes.txt", suffix |-> ".txt",
    reload_ok |-> TRUE, md5_hash |-> "aDI="],
   [name |-> "folder/z.webm", title |-> "z.webm", suffix |-> ".webm",
    reload_ok |-> FALSE, md5_hash |-> "aDM="],
   [name |-> "folder/w.mkv", title |-> "w.mkv", suffix |-> ".mkv",
    reload_ok |-> TRUE, md5_hash |-> NONE]}

\* What list_blobs does for a row: it raises, or it returns blobs.
Listings ==
  {[ok |-> FALSE, blobs |-> <<>>]} \cup
  {[ok |-> TRUE, blobs |-> blobs] :
     blobs \in DistinctSeqsUpTo(StorageBlobs, MaxBlobs)}

\* A row of the GCS range together with its listing; no listing is asked for
\* a URI that split_gcs_uri rejects.
GcsRows ==
  {row \in [gcs_uri : SheetGcsUris, listing : Listings] :
     SplitGcsUri(row.gcs_uri) = <<>> => ~row.listing.ok}

video_extensions == {".mp4", ".mov", ".avi", ".mkv", ".webm", ".flv", ".wmv"}

\* str.lower() on the end of a blob name.
Lower(suffix) == IF suffix = ".MP4" THEN ".mp4" ELSE suffix

\* any(blob.name.lower().endswith(ext) for ext in video_extensions)
IsVideoBlob(blob) == Lower(blob.suffix) \in video_extensions

\* base64.b64decode(md5_hash).hex()
Md5Hex(md5_hash) == IF md5_hash = "aDE=" THEN "6831" ELSE "68"

\* Lines 424-438: the Video of a video blob.
BlobVideo(bucket_name, blob) ==
  [source |-> "manual_entry", video_id |-> NONE,
   gcs_uri |-> "gs://" \o bucket_name \o "/" \o blob.name,
   md5_hash |-> Md5Hex(blob.md5_hash), metadata |-> <<blob.title>>]

\* The loop of lines 422-438: the videos appended before the loop ended, and
\* the exception that ended it, if any: blob.reload() raises, or b64decode
\* raises TypeError for a blob without md5_hash.
RECURSIVE BlobVideos(_, _)
BlobVideos(bucket_name, video_blobs) ==
  IF video_blobs = <<>> THEN [raised |-> NONE, videos |-> <<>>]
  ELSE LET blob == Head(video_blobs) IN
    IF ~blob.reload_ok THEN [raised |-> "Exception", videos |-> <<>>]
    ELSE IF blob.md5_hash = NONE
    THEN [raised |-> "TypeError", videos |-> <<>>]
    ELSE LET rest == BlobVideos(bucket_name, Tail(video_blobs)) IN
      [raised |-> rest.raised,
       videos |-> <<BlobVideo(bucket_name, blob)>> \o rest.videos]

\* _process_gcs_uri returning what the loop had collected when a blob raised.
ProcessGcsUriKeepPartial(row) ==
  LET parts == SplitGcsUri(row.gcs_uri) IN
  IF parts = <<>>
  THEN [videos |-> <<>>,
        log |-> <<LogLine("error", "Invalid GCS URI", row.gcs_uri, 0)>>]
  ELSE IF ~row.listing.ok
  THEN [videos |-> <<>>,
        log |-> <<LogLine("error", "Error processing GCS URI",
                          row.gcs_uri, 0)>>]
  ELSE IF row.listing.blobs = <<>>
  THEN [videos |-> <<>>,
        log |-> <<LogLine("warning", "No objects found", row.gcs_uri, 0)>>]
  ELSE LET blobs == row.listing.blobs
           video_blobs == SelectSeq(blobs, IsVideoBlob)
           is_single_file == /\ Len(blobs) = 1
                             /\ blobs[1].name = parts[2]
                             /\ ~EndsWithSlash(row.gcs_uri)
           built == BlobVideos(parts[1], video_blobs)
       IN IF video_blobs = <<>>
          THEN [videos |-> <<>>,
                log |-> <<LogLine("warning",
                                  IF is_single_file THEN "not a video file"
                                  ELSE "No video files found",
                                  row.gcs_uri, 0)>>]
          ELSE IF built.raised # NONE
          THEN [videos |-> built.videos,
                log |-> <<LogLine("error", "Error processing GCS URI",
                                  row.gcs_uri, 0)>>]
          ELSE [videos |-> built.videos, log |-> <<>>]

\* _process_gcs_uri: the videos returned and the lines logged.
ProcessGcsUri(row) ==
  LET parts == SplitGcsUri(row.gcs_uri) IN
  IF parts = <<>>
  THEN [videos |-> <<>>,
        log |-> <<LogLine("error", "Invalid GCS URI", row.gcs_uri, 0)>>]
  ELSE IF ~row.listing.ok
  THEN [videos |-> <<>>,
        log |-> <<LogLine("error", "Error processing GCS URI",
                          row.gcs_uri, 0)>>]
  ELSE IF row.listing.blobs = <<>>
  THEN [videos |-> <<>>,
        log |-> <<LogLine("warning", "No objects found", row.gcs_uri, 0)>>]
  ELSE LET blobs == row.listing.blobs
           video_blobs == SelectSeq(blobs, IsVideoBlob)
           is_single_file == /\ Len(blobs) = 1
                             /\ blobs[1].name = parts[2]
                             /\ ~EndsWithSlash(row.gcs_uri)
           built == BlobVideos(parts[1], video_blobs)
       IN IF video_blobs = <<>>
          THEN [videos |-> <<>>,
                log |-> <<LogLine("warning",
                                  IF is_single_file THEN "not a video file"
                                  ELSE "No video files found",
                                  row.gcs_uri, 0)>>]
          ELSE IF built.raised # NONE
          THEN [videos |-> <<>>,
                log |-> <<LogLine("error", "Error processing GCS URI",
                                  row.gcs_uri, 0)>>]
          ELSE [videos |-> built.videos, log |-> <<>>]

\* Lines 298-300: the two ranges of the sheet are read.
ReadSheetRanges ==
  /\ sheet_pc = "start"
  /\ yt_ids_videos' = YoutubeIdsFromSheet
  /\ gcs_uris_videos' = <<>>
  /\ prefix_i' = 0
  /\ sheet_pc' = "prefixes"
  /\ UNCHANGED <<analyze_vars, env_vars, run_vars, ads_vars, job_vars,
                 video_args,
                 video_built, info_pc, info_video_ids, missing_ids,
                 video_ids_chunks, list_requests, video_items, info_returned,
                 gcs_rows, sheet_log, sheet_result>>

\* Lines 304-310: the sheet does not exist (HttpError 404); a warning is
\* logged and the empty list returned.
SheetNotFound ==
  /\ sheet_pc = "start"
  /\ sheet_log' = Append(sheet_log,
                         LogLine("warning", "Google Sheet not found", "", 0))
  /\ sheet_result' = <<>>
  /\ sheet_pc' = "returned"
  /\ UNCHANGED <<analyze_vars, env_vars, run_vars, ads_vars, job_vars,
                 video_args,
                 video_built, info_pc, info_video_ids, missing_ids,
                 video_ids_chunks, list_requests, video_items, info_returned,
                 gcs_rows, yt_ids_videos, gcs_uris_videos, prefix_i>>

\* Lines 311-318: any other HttpError of the sheet is raised again.
SheetReadFails ==
  /\ sheet_pc = "start"
  /\ sheet_pc' = "failed"
  /\ UNCHANGED <<analyze_vars, env_vars, run_vars, ads_vars, job_vars,
                 video_args,
                 video_built, info_pc, info_video_ids, missing_ids,
                 video_ids_chunks, list_requests, video_items, info_returned,
                 gcs_rows, yt_ids_videos, gcs_uris_videos, prefix_i,
                 sheet_log, sheet_result>>

\* Lines 301-302: gcs_uris_videos.extend(self._process_gcs_uri(gcs_uri)) for
\* the next row.
ProcessNextGcsUri ==
  /\ sheet_pc = "prefixes"
  /\ prefix_i < Len(gcs_rows)
  /\ LET r == ProcessGcsUri(gcs_rows[prefix_i + 1]) IN
       /\ gcs_uris_videos' = gcs_uris_videos \o r.videos
       /\ sheet_log' = sheet_log \o r.log
  /\ prefix_i' = prefix_i + 1
  /\ UNCHANGED <<analyze_vars, env_vars, run_vars, ads_vars, job_vars,
                 video_args,
                 video_built, info_pc, info_video_ids, missing_ids,
                 video_ids_chunks, list_requests, video_items, info_returned,
                 gcs_rows, sheet_pc, yt_ids_videos, sheet_result>>

\* Line 303: return yt_ids_videos + gcs_uris_videos.
ReturnSheetVideos ==
  /\ sheet_pc = "prefixes"
  /\ prefix_i = Len(gcs_rows)
  /\ sheet_result' = yt_ids_videos \o gcs_uris_videos
  /\ sheet_pc' = "returned"
  /\ UNCHANGED <<analyze_vars, env_vars, run_vars, ads_vars, job_vars,
                 video_args,
                 video_built, info_pc, info_video_ids, missing_ids,
                 video_ids_chunks, list_requests, video_items, info_returned,
                 gcs_rows, yt_ids_videos, gcs_uris_videos, prefix_i,
                 sheet_log>>

SheetNext ==
  \/ ReadSheetRanges
  \/ SheetNotFound
  \/ SheetReadFails
  \/ ProcessNextGcsUri
  \/ ReturnSheetVideos

\* One call on any rows of the GCS range, the VideoIDs range empty or holding
\* one id.
InitSheet ==
  /\ gcs_rows \in SeqsUpTo(GcsRows, MaxPrefixes)
  /\ sheet_ids \in {<<>>, <<"v1">>}
  /\ sheet_pc = "start"
  /\ yt_ids_videos = <<>>
  /\ gcs_uris_videos = <<>>
  /\ prefix_i = 0
  /\ sheet_log = <<>>
  /\ sheet_result = <<>>
  /\ sheet_gcs = <<>>
  /\ ads_rows = <<>>
  /\ history = {}
  /\ yt_status = [v \in VideoIds |-> "public"]
  /\ task_queue = <<>>
  /\ video_limit = 1
  /\ RunIdle
  /\ AdsIdle
  /\ JobIdle
  /\ VideoInitIdle
  /\ VideoInfoIdle
  /\ AnalyzeIdle

SpecSheet == InitSheet /\ [][SheetNext]_vars

\* Processing the row meets an error: the URI has no bucket and path, the
\* listing fails, or the reload or the hash decoding fails on a video blob.
PrefixRaises(row) ==
  \/ SplitGcsUri(row.gcs_uri) = <<>>
  \/ ~row.listing.ok
  \/ \E i \in 1..Len(row.listing.blobs) :
       /\ IsVideoBlob(row.listing.blobs[i])
       /\ \/ ~row.listing.blobs[i].reload_ok
          \/ row.listing.blobs[i].md5_hash = NONE

\* The videos a row contributes: none when its processing meets an error,
\* otherwise one per video blob of its listing.
ExpectedVideos(row) ==
  IF PrefixRaises(row) THEN <<>>
  ELSE LET video_blobs == SelectSeq(row.listing.blobs, IsVideoBlob) IN
    [i \in 1..Len(video_blobs) |->
       BlobVideo(SplitGcsUri(row.gcs_uri)[1], video_blobs[i])]

\* The lines of a level logged for the rows processed so far.
SheetLogged(level) == SelectSeq(sheet_log, LAMBDA l : l.level = level)

\* The two ranges of the sheet were read.
SheetWasRead ==
  /\ sheet_pc \in {"prefixes", "returned"}
  /\ \A k \in 1..Len(sheet_log) :
       sheet_log[k].what # "Google Sheet not found"

\* C23: an error while processing one prefix (URI without bucket and path,
\* listing error, reload or hash error on any blob) is logged and makes that
\* prefix contribute no video, the videos of every other prefix and of the
\* VideoIDs range being returned all the same; a prefix with no object or no
\* video file contributes nothing, with a warning and without an error; no
\* prefix makes the call raise.
C23_PrefixErrorsContained ==
  /\ SheetWasRead =>
       /\ gcs_uris_videos =
            Concatenated([i \in 1..prefix_i |-> ExpectedVideos(gcs_rows[i])])
       /\ Len(SheetLogged("error")) =
            Cardinality({i \in 1..prefix_i : PrefixRaises(gcs_rows[i])})
       /\ Len(SheetLogged("warning")) =
            Cardinality({i \in 1..prefix_i :
                           /\ ~PrefixRaises(gcs_rows[i])
                           /\ ExpectedVideos(gcs_rows[i]) = <<>>})
       /\ \A k \in 1..Len(sheet_log) :
            \E i \in 1..prefix_i : sheet_log[k].text = gcs_rows[i].gcs_uri
  /\ sheet_pc = "failed" => prefix_i = 0
  /\ (sheet_pc = "returned" /\ SheetWasRead) =>
       /\ prefix_i = Len(gcs_rows)
       /\ sheet_result = yt_ids_videos \o gcs_uris_videos

\* A prefix whose second video blob failed to reload was followed by a prefix
\* with a video, and the call returned the id of the sheet and that video.
C23_Witness ==
  /\ sheet_pc = "returned"
  /\ Len(gcs_rows) = 2
  /\ PrefixRaises(gcs_rows[1])
  /\ gcs_rows[1].listing.ok
  /\ SplitGcsUri(gcs_rows[1].gcs_uri) # <<>>
  /\ Len(gcs_rows[1].listing.blobs) = 2
  /\ IsVideoBlob(gcs_rows[1].listing.blobs[1])
  /\ gcs_rows[1].listing.blobs[1].reload_ok
  /\ gcs_rows[1].listing.blobs[1].md5_hash # NONE
  /\ ~PrefixRaises(gcs_rows[2])
  /\ Len(sheet_result) = 2
  /\ sheet_result[1].video_id = "v1"
  /\ sheet_result[2].gcs_uri = "gs://b/folder/x.MP4"

----------------------------------------------------------------------------
\* VideoAnalyzer.analyze_video with _upload_video_from_gcs and
\* _wait_for_video_processing.

\* The videos analysed: one identified by video_id, one by gcs_uri.
AnalyzedVideos ==
  {[video_id |-> "v1", gcs_uri |-> NONE],
   [video_id |-> NONE, gcs_uri |-> "gs://b/g1.mp4"]}

\* The name files.upload gives the uploaded file.
FileName == "files/f1"

\* types.Part(file_data=FileData(file_uri=...)): not a File, no name.
YoutubePart == [kind |-> "Part", name |-> NONE, state |-> NONE]

\* The types.File that files.get returns.
UploadedFile(name, state) == [kind |-> "File", name |-> name, state |-> state]

\* tenacity.stop_after_delay(300)
StopAfterDelay == 300

\* tenacity.wait_exponential(multiplier=1, min=2, max=60) for an attempt:
\* 2 ** (attempt_number - 1), kept between min and max.
WaitExponential(n) == Max(2, Min(2 ^ (n - 1), 60))

\* The seconds a files.get call can take.
PollSeconds == 0..MaxPollSeconds

\* Lines 122-127: the video has no gcs_uri, its YouTube URL is passed on.
BuildYoutubePart ==
  /\ an_pc = "start"
  /\ ~Truthy(an_video.gcs_uri)
  /\ video_content' = YoutubePart
  /\ an_pc' = "generating"
  /\ UNCHANGED <<env_vars, run_vars, ads_vars, job_vars, video_args,
                 video_built, info_pc, info_video_ids, missing_ids,
                 video_ids_chunks, list_requests, video_items, info_returned,
                 sheet_vars, an_video, api_files, file_state, upload_calls,
                 observed, elapsed, attempt_number, generate_calls,
                 pending_error, delete_calls, an_error>>

\* Lines 161-181: files.upload stores the file and returns it with its name;
\* the wait starts with the first attempt.
UploadVideo ==
  /\ an_pc = "start"
  /\ Truthy(an_video.gcs_uri)
  /\ upload_calls' = upload_calls + 1
  /\ api_files' = api_files \cup {FileName}
  /\ file_state' = "PROCESSING"
  /\ attempt_number' = 1
  /\ elapsed' = 0
  /\ an_pc' = "polling"
  /\ UNCHANGED <<env_vars, run_vars, ads_vars, job_vars, video_args,
                 video_built, info_pc, info_video_ids, missing_ids,
                 video_ids_chunks, list_requests, video_items, info_returned,
                 sheet_vars, an_video, video_content, observed,
                 generate_calls, pending_error, delete_calls, an_error>>

\* Lines 170-173: blob.open or files.upload raises; nothing is stored and the
\* exception leaves analyze_video.
UploadFails ==
  /\ an_pc = "start"
  /\ Truthy(an_video.gcs_uri)
  /\ upload_calls' = upload_calls + 1
  /\ an_error' = "Exception"
  /\ an_pc' = "failed"
  /\ UNCHANGED <<env_vars, run_vars, ads_vars, job_vars, video_args,
                 video_built, info_pc, info_video_ids, missing_ids,
                 video_ids_chunks, list_requests, video_items, info_returned,
                 sheet_vars, an_video, video_content, api_files, file_state,
                 observed, elapsed, attempt_number, generate_calls,
                 pending_error, delete_calls>>

\* Lines 175-179: files.upload returns no name reference; GenerativeAIError
\* is raised and leaves analyze_video.
UploadWithoutName ==
  /\ an_pc = "start"
  /\ Truthy(an_video.gcs_uri)
  /\ upload_calls' = upload_calls + 1
  /\ an_error' = "GenerativeAIError"
  /\ an_pc' = "failed"
  /\ UNCHANGED <<env_vars, run_vars, ads_vars, job_vars, video_args,
                 video_built, info_pc, info_video_ids, missing_ids,
                 video_ids_chunks, list_requests, video_items, info_returned,
                 sheet_vars, an_video, video_content, api_files, file_state,
                 observed, elapsed, attempt_number, generate_calls,
                 pending_error, delete_calls>>

\* The generative API finishes processing the uploaded file.
FileBecomesActive ==
  /\ file_state = "PROCESSING"
  /\ file_state' = "ACTIVE"
  /\ UNCHANGED <<env_vars, run_vars, ads_vars, job_vars, video_args,
                 video_built, info_pc, info_video_ids, missing_ids,
                 video_ids_chunks, list_requests, video_items, info_returned,
                 sheet_vars, an_video, an_pc, video_content, api_files,
                 upload_calls, observed, elapsed, attempt_number,
                 generate_calls, pending_error, delete_calls, an_error>>

\* Lines 207-224: files.get returns the file in state ACTIVE, which
\* _wait_for_video_processing returns.
PollActive(seconds) ==
  /\ an_pc = "polling"
  /\ file_state = "ACTIVE"
  /\ observed' = Append(observed, file_state)
  /\ elapsed' = elapsed + seconds
  /\ video_content' = UploadedFile(FileName, file_state)
  /\ an_pc' = "generating"
  /\ UNCHANGED <<env_vars, run_vars, ads_vars, job_vars, video_args,
                 video_built, info_pc, info_video_ids, missing_ids,
                 video_ids_chunks, list_requests, video_items, info_returned,
                 sheet_vars, an_video, api_files, file_state, upload_calls,
                 attempt_number, generate_calls, pending_error, delete_calls,
                 an_error>>

\* The file returned by the wait in whatever state it was polled.
PollNotActiveReturns(seconds) ==
  /\ an_pc = "polling"
  /\ file_state # "ACTIVE"
  /\ observed' = Append(observed, file_state)
  /\ elapsed' = elapsed + seconds
  /\ video_content' = UploadedFile(FileName, file_state)
  /\ an_pc' = "generating"
  /\ UNCHANGED <<env_vars, run_vars, ads_vars, job_vars, video_args,
                 video_built, info_pc, info_video_ids, missing_ids,
                 video_ids_chunks, list_requests, video_items, info_returned,
                 sheet_vars, an_video, api_files, file_state, upload_calls,
                 attempt_number, generate_calls, pending_error, delete_calls,
                 an_error>>

\* Lines 207-218 and 186-191: files.get returns the file in another state,
\* GenerativeAIError is raised, and tenacity, less than 300 seconds after the
\* start of the first attempt, goes on to wait for the next attempt.
PollNotActive(seconds) ==
  /\ an_pc = "polling"
  /\ file_state # "ACTIVE"
  /\ elapsed + seconds < StopAfterDelay
  /\ observed' = Append(observed, file_state)
  /\ elapsed' = elapsed + seconds
  /\ an_pc' = "sleeping"
  /\ UNCHANGED <<env_vars, run_vars, ads_vars, job_vars, video_args,
                 video_built, info_pc, info_video_ids, missing_ids,
                 video_ids_chunks, list_requests, video_items, info_returned,
                 sheet_vars, an_video, video_content, api_files, file_state,
                 upload_calls, attempt_number, generate_calls, pending_error,
                 delete_calls, an_error>>

\* The same poll ending 300 seconds or more after the start of the first
\* attempt: tenacity stops and raises RetryError, which leaves analyze_video.
StopAfterCeiling(seconds) ==
  /\ an_pc = "polling"
  /\ file_state # "ACTIVE"
  /\ elapsed + seconds >= StopAfterDelay
  /\ observed' = Append(observed, file_state)
  /\ elapsed' = elapsed + seconds
  /\ an_error' = "RetryError"
  /\ an_pc' = "failed"
  /\ UNCHANGED <<env_vars, run_vars, ads_vars, job_vars, video_args,
                 video_built, info_pc, info_video_ids, missing_ids,
                 video_ids_chunks, list_requests, video_items, info_returned,
                 sheet_vars, an_video, video_content, api_files, file_state,
                 upload_calls, attempt_number, generate_calls, pending_error,
                 delete_calls>>

\* Line 207: files.get raises an error of the API client, which is not a
\* GenerativeAIError: it is not retried and leaves analyze_video.
PollRaises ==
  /\ an_pc = "polling"
  /\ an_error' = "APIError"
  /\ an_pc' = "failed"
  /\ UNCHANGED <<env_vars, run_vars, ads_vars, job_vars, video_args,
                 video_built, info_pc, info_video_ids, missing_ids,
                 video_ids_chunks, list_requests, video_items, info_returned,
                 sheet_vars, an_video, video_content, api_files, file_state,
                 upload_calls, observed, elapsed, attempt_number,
                 generate_calls, pending_error, delete_calls>>

\* Line 188: tenacity sleeps wait_exponential seconds, then starts the next
\* attempt.
SleepBeforeRetry ==
  /\ an_pc = "sleeping"
  /\ elapsed' = elapsed + WaitExponential(attempt_number)
  /\ attempt_number' = attempt_number + 1
  /\ an_pc' = "polling"
  /\ UNCHANGED <<env_vars, run_vars, ads_vars, job_vars, video_args,
                 video_built, info_pc, info_video_ids, missing_ids,
                 video_ids_chunks, list_requests, video_items, info_returned,
                 sheet_vars, an_video, video_content, api_files, file_state,
                 upload_calls, observed, generate_calls, pending_error,
                 delete_calls, an_error>>

\* Lines 130-136: generate_content returns.
GenerateReturns ==
  /\ an_pc = "generating"
  /\ generate_calls' = generate_calls + 1
  /\ pending_error' = NONE
  /\ an_pc' = "finally"
  /\ UNCHANGED <<env_vars, run_vars, ads_vars, job_vars, video_args,
                 video_built, info_pc, info_video_ids, missing_ids,
                 video_ids_chunks, list_requests, video_items, info_returned,
                 sheet_vars, an_video, video_content, api_files, file_state,
                 upload_calls, observed, elapsed, attempt_number,
                 delete_calls, an_error>>

\* Lines 137-138: generate_content raises; GenerativeAIError is raised in its
\* place and is in flight while the finally clause runs.
GenerateRaises ==
  /\ an_pc = "generating"
  /\ generate_calls' = generate_calls + 1
  /\ pending_error' = "GenerativeAIError"
  /\ an_pc' = "finally"
  /\ UNCHANGED <<env_vars, run_vars, ads_vars, job_vars, video_args,
                 video_built, info_pc, info_video_ids, missing_ids,
                 video_ids_chunks, list_requests, video_items, info_returned,
                 sheet_vars, an_video, video_content, api_files, file_state,
                 upload_calls, observed, elapsed, attempt_number,
                 delete_calls, an_error>>

\* The test of lines 140-144.
HasUploadedFile ==
  /\ an_video.gcs_uri # NONE
  /\ video_content.kind = "File"
  /\ Truthy(video_content.name)

\* The finally clause leaving the uploaded file where it is.
FinallyNoDelete ==
  /\ an_pc = "finally"
  /\ HasUploadedFile
  /\ an_error' = pending_error
  /\ an_pc' = IF pending_error = NONE THEN "returned" ELSE "failed"
  /\ UNCHANGED <<env_vars, run_vars, ads_vars, job_vars, video_args,
                 video_built, info_pc, info_video_ids, missing_ids,
                 video_ids_chunks, list_requests, video_items, info_returned,
                 sheet_vars, an_video, video_content, api_files, file_state,
                 upload_calls, observed, elapsed, attempt_number,
                 generate_calls, pending_error, delete_calls>>

\* Lines 139-147: the finally clause deletes the uploaded file, then the
\* products are returned or the exception in flight goes on.
FinallyDelete ==
  /\ an_pc = "finally"
  /\ HasUploadedFile
  /\ delete_calls' = Append(delete_calls, Lookup(video_content.name, TRUE))
  /\ api_files' = api_files \ {video_content.name}
  /\ an_error' = pending_error
  /\ an_pc' = IF pending_error = NONE THEN "returned" ELSE "failed"
  /\ UNCHANGED <<env_vars, run_vars, ads_vars, job_vars, video_args,
                 video_built, info_pc, info_video_ids, missing_ids,
                 video_ids_chunks, list_requests, video_items, info_returned,
                 sheet_vars, an_video, video_content, file_state,
                 upload_calls, observed, elapsed, attempt_number,
                 generate_calls, pending_error>>

\* Line 145: files.delete raises; its exception leaves analyze_video and the
\* file stays.
DeleteFails ==
  /\ an_pc = "finally"
  /\ HasUploadedFile
  /\ delete_calls' = Append(delete_calls, Lookup(video_content.name, FALSE))
  /\ an_error' = "APIError"
  /\ an_pc' = "failed"
  /\ UNCHANGED <<env_vars, run_vars, ads_vars, job_vars, video_args,
                 video_built, info_pc, info_video_ids, missing_ids,
                 video_ids_chunks, list_requests, video_items, info_returned,
                 sheet_vars, an_video, video_content, api_files, file_state,
                 upload_calls, observed, elapsed, attempt_number,
                 generate_calls, pending_error>>

\* Lines 139-147: there is no uploaded file, the finally clause does nothing.
FinallySkip ==
  /\ an_pc = "finally"
  /\ ~HasUploadedFile
  /\ an_error' = pending_error
  /\ an_pc' = IF pending_error = NONE THEN "returned" ELSE "failed"
  /\ UNCHANGED <<env_vars, run_vars, ads_vars, job_vars, video_args,
                 video_built, info_pc, info_video_ids, missing_ids,
                 video_ids_chunks, list_requests, video_items, info_returned,
                 sheet_vars, an_video, video_content, api_files, file_state,
                 upload_calls, observed, elapsed, attempt_number,
                 generate_calls, pending_error, delete_calls>>

\* The steps of _wait_for_video_processing under tenacity.
WaitStep ==
  \/ \E seconds \in PollSeconds : PollActive(seconds)
  \/ \E seconds \in PollSeconds : PollNotActive(seconds)
  \/ \E seconds \in PollSeconds : StopAfterCeiling(seconds)
  \/ PollRaises
  \/ SleepBeforeRetry

AnalyzeNext ==
  \/ BuildYoutubePart
  \/ UploadVideo
  \/ UploadFails
  \/ UploadWithoutName
  \/ FileBecomesActive
  \/ WaitStep
  \/ GenerateReturns
  \/ GenerateRaises
  \/ FinallyDelete
  \/ DeleteFails
  \/ FinallySkip

\* One call of analyze_video on either kind of video.
InitAnalyze ==
  /\ an_video \in AnalyzedVideos
  /\ AnalyzeCallIdle
  /\ VideoInitIdle
  /\ VideoInfoIdle
  /\ SheetIdle
  /\ DiscoveryIdle
  /\ AdsIdle
  /\ JobIdle

SpecAnalyze == InitAnalyze /\ [][AnalyzeNext]_vars

\* The same call, the thread that runs the wait never stopping for ever
\* before its next step.
SpecAnalyzeFair == SpecAnalyze /\ WF_vars(WaitStep)

\* The call is over.
AnalyzeOver == an_pc \in {"returned", "failed"}

\* C24: for a gcs_uri video whose upload returned a file, files.delete is
\* called exactly once for that file, after the one generate_content call
\* and before analyze_video returns or raises, whether generate_content
\* returned or raised (GenerativeAIError then being raised); for a video_id
\* video no upload and no delete call is made.
C24_UploadedFileDeletedOnce ==
  /\ generate_calls <= 1
  /\ Len(delete_calls) <= generate_calls
  /\ an_video.gcs_uri = NONE => (upload_calls = 0 /\ delete_calls = <<>>)
  /\ (an_video.gcs_uri # NONE /\ video_content.kind = "File" /\ AnalyzeOver) =>
       /\ upload_calls = 1
       /\ generate_calls = 1
       /\ Len(delete_calls) = 1
       /\ delete_calls[1].what = video_content.name
       /\ delete_calls[1].ok =>
            /\ api_files = {}
            /\ an_error = pending_error
            /\ an_pc = (IF pending_error = NONE THEN "returned" ELSE "failed")

\* The uploaded file was deleted after generate_content raised.
C24_Witness ==
  /\ an_pc = "failed"
  /\ an_error = "GenerativeAIError"
  /\ video_content.kind = "File"
  /\ delete_calls = <<Lookup(FileName, TRUE)>>
  /\ api_files = {}

\* What holds at every moment of the wait: a state is polled again only after
\* a state other than ACTIVE was polled, the file returned is the one of the
\* poll that saw ACTIVE, every sleep starts less than 300 seconds after the
\* start of the first poll, and RetryError ends the wait when a poll that did
\* not see ACTIVE ends 300 seconds or more after it.
C25_WaitSafety ==
  /\ \A k \in 1..(Len(observed) - 1) : observed[k] # "ACTIVE"
  /\ Len(observed) <= attempt_number
  /\ attempt_number <= 11
  /\ an_pc = "sleeping" => Len(observed) = attempt_number
  /\ video_content.kind = "File" =>
       /\ video_content.state = "ACTIVE"
       /\ observed[Len(observed)] = "ACTIVE"
  /\ an_pc = "sleeping" => elapsed < StopAfterDelay
  /\ an_pc = "polling" => elapsed < StopAfterDelay + 60
  /\ an_error = "RetryError" =>
       /\ elapsed >= StopAfterDelay
       /\ observed[Len(observed)] # "ACTIVE"
       /\ video_content = NoContent

\* C25: _wait_for_video_processing always terminates, returning the file of
\* the first poll that sees ACTIVE or failing, and never returns a file that
\* is not ACTIVE.
C25_WaitTerminates ==
  /\ []C25_WaitSafety
  /\ (an_pc = "polling") ~> (an_pc \notin {"polling", "sleeping"})

\* The wait returned the file on its third poll.
C25_Witness ==
  /\ an_pc = "generating"
  /\ observed = <<"PROCESSING", "PROCESSING", "ACTIVE">>
  /\ video_content = UploadedFile(FileName, "ACTIVE")

\* C29: every file analyze_video uploads is deleted before it returns or
\* raises, also when the wait for the file to become ACTIVE fails or reaches
\* its ceiling (stated for the calls in which no files.delete call failed).
C29_NoUploadedFileLeft ==
  (AnalyzeOver /\ \A k \in 1..Len(delete_calls) : delete_calls[k].ok) =>
    api_files = {}

====
